---- MODULE Spec2Model ----
(***************************************************************************)
(* Model of the OneDrive -> Azure Search ingestion pipeline                *)
(* (scripts/ingest_onedrive.ts, function main and its helpers).            *)
(*                                                                         *)
(* One run of main() is a walk through the program positions               *)
(*   query -> list -> categorize -> process (one step per file)            *)
(*         -> guard -> upsert (one step per batch) -> exited               *)
(* The remote folder and the search index outlive a run; everything else   *)
(* is local to a run and is reset when the next run starts.                *)
(*                                                                         *)
(* Times are integers; 0 stands for an absent timestamp (undefined or ''). *)
(* Graph timestamps and Date.toISOString() both denote instants at         *)
(* millisecond precision, so parsing and re-formatting keeps the instant.  *)
(***************************************************************************)
EXTENDS Integers, Sequences, FiniteSets, TLC

\* ---------------------------------------------------------------- bounds
MaxRuns  == 2      \* pipeline invocations in one behaviour
MaxEdits == 1      \* modifications of the remote folder between runs
MaxMtime == 2      \* largest remote modification time
MaxIdDocs == 2     \* documents in the index of the document-id study
MaxPasses == 8     \* passes of the chunkText loop that are followed
MaxLines == 2      \* lines of child output an ingest request collects
MaxClock == 8      \* minutes the token study follows

\* ------------------------------------------------------ program constants
MAX_FILE_SIZE_BYTES == 25 * 1024 * 1024
MAX_TEXT_LENGTH     == 300000
MAX_CHUNKS          == 300
batchSize           == 100
ChunkSize           == 1000      \* chunkText default chunkSize
Overlap             == 200       \* chunkText default overlap
MinChunkLen         == 200       \* chunkText drops shorter chunks

FileIds == {"f1", "f2"}
FileOrder == <<"f1", "f2">>     \* order in which the listing returns them

\* The remote files the folder may hold.  bytes is the length of the
\* downloaded buffer, sizeListed tells whether the listing carried `size`,
\* textLen is the length of the text the extractor returns (the text holds
\* no '.', newline or blank), parseOk is FALSE for a malformed file.
Contents ==
  { [name |-> "txt50k",   ext |-> "txt",  bytes |-> 50 * 1024, sizeListed |-> TRUE,
     textLen |-> 50 * 1024, parseOk |-> TRUE],
    [name |-> "sheet",    ext |-> "xlsx", bytes |-> 4096, sizeListed |-> TRUE,
     textLen |-> 0, parseOk |-> FALSE],
    [name |-> "pdfSmall", ext |-> "pdf",  bytes |-> 4096, sizeListed |-> TRUE,
     textLen |-> 2000, parseOk |-> TRUE],
    [name |-> "pdfTiny",  ext |-> "pdf",  bytes |-> 4096, sizeListed |-> TRUE,
     textLen |-> 1000, parseOk |-> TRUE],
    [name |-> "pdfBad",   ext |-> "pdf",  bytes |-> 4096, sizeListed |-> TRUE,
     textLen |-> 0, parseOk |-> FALSE],
    [name |-> "pdfMax",   ext |-> "pdf",  bytes |-> MAX_FILE_SIZE_BYTES, sizeListed |-> TRUE,
     textLen |-> 2000, parseOk |-> TRUE],
    [name |-> "pdfOver",  ext |-> "pdf",  bytes |-> MAX_FILE_SIZE_BYTES + 1, sizeListed |-> TRUE,
     textLen |-> 2000, parseOk |-> TRUE],
    [name |-> "pdfOverU", ext |-> "pdf",  bytes |-> MAX_FILE_SIZE_BYTES + 1, sizeListed |-> FALSE,
     textLen |-> 2000, parseOk |-> TRUE],
    [name |-> "deckEmpty", ext |-> "pptx", bytes |-> 4096, sizeListed |-> TRUE,
     textLen |-> 0, parseOk |-> TRUE],
    [name |-> "docLong",  ext |-> "docx", bytes |-> 4096, sizeListed |-> TRUE,
     textLen |-> MAX_TEXT_LENGTH + 1, parseOk |-> TRUE],
    [name |-> "docMany",  ext |-> "docx", bytes |-> 4096, sizeListed |-> TRUE,
     textLen |-> MAX_TEXT_LENGTH, parseOk |-> TRUE],
    [name |-> "docTwoBatches", ext |-> "docx", bytes |-> 4096, sizeListed |-> TRUE,
     textLen |-> 81000, parseOk |-> TRUE] }

VARIABLES
  folder,          \* remote: ids of the files in the configured folder
  remote,          \* remote: file id -> [content, mtime]   (mtime 0 = absent)
  index,           \* search index: document id -> document
  now,             \* wall clock (Date.now())
  run,             \* number of runs started
  edits,           \* number of remote modifications made
  dirty,           \* the folder was modified after the latest run started
  changedBefore,   \* the folder was modified between the latest two run starts
  pc,              \* position in main()
  exitCode,        \* process.exit code of the run (-1 while running)
  indexedFiles,    \* main: Map file_id -> updated_at
  files,           \* main: listed files (sequence of ids)
  fileCategories,  \* main: sequence of [file, category]
  i,               \* main: loop index of the second pass (1-based)
  allDocuments,    \* main: accumulated documents
  counts,          \* main: the five counters
  batchPos,        \* main: start of the next batch (1-based)
  outcome,         \* per file: how its processing ended in this run
  downloaded,      \* files whose content was requested in this run
  extracted,       \* files given to extractTextFromFile in this run
  chunked,         \* files whose text was given to chunkText in this run
  embedCalls,      \* file id -> number of getEmbedding calls in this run
  upsertCalls,     \* number of upsert requests sent in this run
  sent,            \* the batches sent in this run, in the order of sending
  inFlight,        \* upsert requests sent and not yet answered
  failure,         \* why the run exited with 1 ("" otherwise)
  queryFailed,     \* the index query of this run was answered with a non-ok status
  prev,            \* snapshot of the previous run's end
  idIndex,         \* id study: document id -> [file_id, chunk_offset, chunk_id]
  idWritten,       \* id study: the <<file id, chunk index>> pairs upserted so far
  query,           \* index-query study: one call of getIndexedFiles, its input and locals
  walk,            \* path study: one resolution of the configured folder path
  lister,          \* listing study: one recursive listing of a drive folder
  chunker,         \* chunker study: one call of chunkText, its input and locals
  route,           \* ingest-route study: one POST /api/ingest request
  pair,            \* concurrency study: two runs of main() against one index
  cache,           \* token study: cachedToken, the clock and the latest call
  status,          \* status-route study: GET /api/status requests and the config cache
  chat,            \* chat-route study: one POST /api/chat request
  ingests,         \* single-writer study: the POST /api/ingest requests of one server
  bearer           \* token-lifetime study: the token of one run of main() and the clock

remoteVars == <<folder, remote, edits>>
editVars   == <<dirty, changedBefore>>
runVars    == <<indexedFiles, files, fileCategories, i, allDocuments, counts, batchPos>>
histVars   == <<outcome, downloaded, extracted, chunked, embedCalls, upsertCalls, sent,
               inFlight, failure, queryFailed>>
\* State of the studies of single functions; main() never touches it.
webVars    == <<status, chat, ingests, bearer>>
pureVars   == <<idIndex, idWritten, query, walk, lister, chunker, route, pair, cache, webVars>>
\* The studies' variables without webVars.
studyVars  == <<idIndex, idWritten, query, walk, lister, chunker, route, pair, cache>>
\* State of main() and of what it works on.
pipelineVars == <<folder, remote, index, now, run, edits, dirty, changedBefore, pc, exitCode,
                  indexedFiles, files, fileCategories, i, allDocuments, counts, batchPos,
                  outcome, downloaded, extracted, chunked, embedCalls, upsertCalls, sent,
                  inFlight, failure, queryFailed, prev>>
vars == <<folder, remote, index, now, run, edits, dirty, changedBefore, pc, exitCode,
          indexedFiles, files, fileCategories, i, allDocuments, counts, batchPos,
          outcome, downloaded, extracted, chunked, embedCalls, upsertCalls, sent, inFlight,
          failure, queryFailed, prev, idIndex, idWritten,
          query, walk, lister, chunker, route, pair, cache, status, chat, ingests, bearer>>

\* ---------------------------------------------------------------- helpers
Max(S) == CHOOSE x \in S : \A y \in S : y <= x
Min2(a, b) == IF a < b THEN a ELSE b

ZeroCounts == [newCount |-> 0, updatedCount |-> 0, skippedCount |-> 0,
               skippedUnchangedCount |-> 0, skippedXlsxCount |-> 0]

\* --------------------------------------------------------- pure functions
\* listRecursive keeps a file item only when its extension passes this test.
listedExt(ext) == ext \in {"pdf", "docx", "xlsx", "pptx"}

\* What the header comment of the script announces as supported.
announcedExt(ext) == ext \in {"txt", "md", "pdf", "docx", "pptx"}

\* getIndexedFiles: file_id -> latest updated_at over the file's documents.
getIndexedFiles(idx) ==
  LET ids == { idx[d].file_id : d \in DOMAIN idx }
  IN  [ f \in ids |-> Max({ idx[d].updated_at : d \in { e \in DOMAIN idx : idx[e].file_id = f } }) ]

\* queryIndexedFiles that takes an unreadable index for an empty one.
queryIndexedFilesLenient(ok, idx) ==
  [threw |-> FALSE, map |-> IF ok THEN getIndexedFiles(idx) ELSE << >>]

\* await getIndexedFiles(...) in main: the map it returns, or the error it
\* throws when a request is answered with a non-ok status.
queryIndexedFiles(ok, idx) ==
  IF ok THEN [threw |-> FALSE, map |-> getIndexedFiles(idx)]
        ELSE [threw |-> TRUE, map |-> << >>]

\* indexedFiles.get(fileId); 0 when the map has no entry.
mapGet(m, f) == IF f \in DOMAIN m THEN m[f] ELSE 0

\* classify with `fileDate < indexedDate` in place of `<=`.
classifyStrict(ext, indexedUpdatedAt, fileModifiedAt) ==
  IF ext = "xlsx" THEN "xlsx"
  ELSE IF indexedUpdatedAt # 0 /\ fileModifiedAt # 0
       THEN IF fileModifiedAt < indexedUpdatedAt THEN "unchanged" ELSE "updated"
       ELSE "new"

\* classify with the two dates of the comparison exchanged.
classifySwapped(ext, indexedUpdatedAt, fileModifiedAt) ==
  IF ext = "xlsx" THEN "xlsx"
  ELSE IF indexedUpdatedAt # 0 /\ fileModifiedAt # 0
       THEN IF indexedUpdatedAt <= fileModifiedAt THEN "unchanged" ELSE "updated"
       ELSE "new"

\* First pass of main: the category of one listed file.
classify(ext, indexedUpdatedAt, fileModifiedAt) ==
  IF ext = "xlsx" THEN "xlsx"
  ELSE IF indexedUpdatedAt # 0 /\ fileModifiedAt # 0
       THEN IF fileModifiedAt <= indexedUpdatedAt THEN "unchanged" ELSE "updated"
       ELSE "new"

\* chunkText with its default parameters on a text of len characters that
\* holds no '.', no newline and no blank, so that no window is cut short and
\* nothing is trimmed.  Every pass of the loop has end = start + ChunkSize
\* and continues at end - Overlap while that is below len, so pass k
\* (k = 0, 1, ...) starts at k * (ChunkSize - Overlap); the slice stops at
\* the end of the text.  The result is the kept windows [start, end).
chunkWindow(len, k) ==
  [ start |-> k * (ChunkSize - Overlap),
    end   |-> Min2(k * (ChunkSize - Overlap) + ChunkSize, len) ]

chunkText(len) ==
  LET step   == ChunkSize - Overlap
      passes == (len + step - 1) \div step
      all    == [ k \in 1 .. passes |-> chunkWindow(len, k - 1) ]
  IN  SelectSeq(all, LAMBDA w : w.end - w.start >= MinChunkLen)

\* tooLarge with the limit one byte too high.
tooLargeOffByOne(bytes) == bytes > MAX_FILE_SIZE_BYTES + 1

\* Guardrail 1 (both the listed size and the downloaded buffer).
tooLarge(bytes) == bytes > MAX_FILE_SIZE_BYTES

\* Guardrail 2.
tooMuchText(len) == len > MAX_TEXT_LENGTH

\* Guardrail 3.
tooManyChunks(n) == n > MAX_CHUNKS

\* "Adjust counts" block that follows a guardrail skip.
adjustCounts(c, indexedUpdatedAt, fileModifiedAt) ==
  IF indexedUpdatedAt = 0 THEN [c EXCEPT !.newCount = @ - 1]
  ELSE IF fileModifiedAt # 0 /\ fileModifiedAt > indexedUpdatedAt
       THEN [c EXCEPT !.updatedCount = @ - 1]
       ELSE c

\* skippedCount++ followed by the adjustment (guardrails 1 and 2).
guardrailSkip(c, indexedUpdatedAt, fileModifiedAt) ==
  adjustCounts([c EXCEPT !.skippedCount = @ + 1], indexedUpdatedAt, fileModifiedAt)

\* entersPipeline without the `continue` of the unchanged branch.
entersPipelineUnchangedToo(category) == category \in {"new", "updated", "unchanged"}

\* Second pass: only these categories go past the two early `continue`s.
entersPipeline(category) == category \in {"new", "updated"}

\* updated_at of a document: the file's modification time, else the clock.
updatedAt(fileModifiedAt, clock) == IF fileModifiedAt # 0 THEN fileModifiedAt ELSE clock

\* One document of allDocuments.
makeDoc(f, chunkIdx, chunk, content, fileModifiedAt, clock) ==
  [ file_id |-> f, chunk_offset |-> chunkIdx,
    content |-> <<content.name, chunk.start, chunk.end>>,
    updated_at |-> updatedAt(fileModifiedAt, clock) ]

\* docId that also depends on the time of the run.
docIdWithTimestamp(d) == <<d.file_id, d.chunk_offset, d.updated_at>>

docId(d) == <<d.file_id, d.chunk_offset>>

\* The chunk indexes at which the embedding service is made to fail.
EmbedFailPoints == {0, 1}

\* chunkText(content) for every text the folder may hold.
ChunkTable == [ name \in { c.name : c \in Contents } |->
                  chunkText((CHOOSE c \in Contents : c.name = name).textLen) ]

\* The embed loop: documents pushed onto allDocuments when getEmbedding
\* throws at chunk index failAt (failAt = Len(chunks): it never throws).
embedLoop(f, chunks, failAt, content, fileModifiedAt, clock) ==
  [ k \in 1 .. Min2(failAt, Len(chunks)) |->
      makeDoc(f, k - 1, chunks[k], content, fileModifiedAt, clock) ]

\* perFileCatch that rethrows to the top-level catch of main.
perFileRethrow(next) == "exited"

\* The per-file catch: where the loop goes after an error in one file.
perFileCatch(next) == next

\* One iteration of the second pass for file f of the given category.
\* dlOk: the download answers 2xx; failAt: see embedLoop.
processOne(f, category, dlOk, failAt) ==
  LET file    == remote[f]
      c       == file.content
      iu      == mapGet(indexedFiles, f)
      fm      == file.mtime
      counted == IF category = "updated"
                 THEN [counts EXCEPT !.updatedCount = @ + 1]
                 ELSE [counts EXCEPT !.newCount = @ + 1]
      chunks  == ChunkTable[c.name]
      base    == [counts |-> counted, docs |-> << >>, download |-> FALSE,
                  extract |-> FALSE, chunk |-> FALSE, embeds |-> 0, outcome |-> "ok",
                  error |-> FALSE]
  IN
  IF category = "xlsx" THEN
    [base EXCEPT !.counts = [counts EXCEPT !.skippedXlsxCount = @ + 1, !.skippedCount = @ + 1],
                 !.outcome = "xlsx"]
  ELSE IF ~entersPipeline(category) THEN
    [base EXCEPT !.counts = [counts EXCEPT !.skippedUnchangedCount = @ + 1, !.skippedCount = @ + 1],
                 !.outcome = "unchanged"]
  ELSE IF c.sizeListed /\ tooLarge(c.bytes) THEN
    [base EXCEPT !.counts = guardrailSkip(counted, iu, fm), !.outcome = "oversize"]
  ELSE IF ~dlOk THEN
    [base EXCEPT !.download = TRUE, !.outcome = "error_download", !.error = TRUE]
  ELSE IF tooLarge(c.bytes) THEN
    [base EXCEPT !.download = TRUE, !.counts = guardrailSkip(counted, iu, fm),
                 !.outcome = "oversize"]
  ELSE IF ~c.parseOk THEN
    [base EXCEPT !.download = TRUE, !.extract = TRUE,
                 !.outcome = "error_extract", !.error = TRUE]
  ELSE IF tooMuchText(c.textLen) THEN
    [base EXCEPT !.download = TRUE, !.extract = TRUE,
                 !.counts = guardrailSkip(counted, iu, fm), !.outcome = "overlength"]
  ELSE IF tooManyChunks(Len(chunks)) THEN
    [base EXCEPT !.download = TRUE, !.extract = TRUE, !.chunk = TRUE,
                 !.outcome = "too_many_chunks"]
  ELSE
    [base EXCEPT !.download = TRUE, !.extract = TRUE, !.chunk = TRUE,
                 !.docs = embedLoop(f, chunks, failAt, c, fm, now),
                 !.embeds = IF failAt < Len(chunks) THEN failAt + 1 ELSE Len(chunks),
                 !.outcome = IF failAt < Len(chunks) THEN "error_embed" ELSE "ok",
                 !.error = failAt < Len(chunks)]

\* batchOf with the end of the slice one document short.
batchOfShort(docs, pos) == SubSeq(docs, pos, Min2(pos + batchSize - 2, Len(docs)))

\* allDocuments.slice(i, i + batchSize), with i = pos - 1.
batchOf(docs, pos) == SubSeq(docs, pos, Min2(pos + batchSize - 1, Len(docs)))

\* topLevelCatch that lets a failed index query pass as success.
topLevelCatchIgnoresIndexQuery(stage) == IF stage = "index_query" THEN 0 ELSE 1

\* topLevelCatch that lets a failed listing pass as an empty folder.
topLevelCatchIgnoresListing(stage) == IF stage = "listing" THEN 0 ELSE 1

\* topLevelCatch that lets a failed upsert pass as success.
topLevelCatchIgnoresUpsert(stage) == IF stage = "upsert" THEN 0 ELSE 1

\* The top-level catch of main: the exit code after an error thrown by the
\* given stage.
topLevelCatch(stage) == 1

\* upsert that first removes every indexed document of the files in the batch.
upsertReplacingFile(idx, batch) ==
  LET fs   == { batch[k].file_id : k \in 1 .. Len(batch) }
      keep == { d \in DOMAIN idx : idx[d].file_id \notin fs }
      ids  == { <<batch[k].file_id, batch[k].chunk_offset>> : k \in 1 .. Len(batch) }
  IN  [ d \in keep \cup ids |->
          IF d \in ids
          THEN batch[CHOOSE k \in 1 .. Len(batch) :
                       <<batch[k].file_id, batch[k].chunk_offset>> = d]
          ELSE idx[d] ]

\* upsertToAzureSearch on a 2xx answer: replace-or-insert by document id.
upsert(idx, batch) ==
  LET ids == { docId(batch[k]) : k \in 1 .. Len(batch) }
  IN  [ d \in DOMAIN idx \cup ids |->
          IF d \in ids
          THEN batch[CHOOSE k \in 1 .. Len(batch) : docId(batch[k]) = d]
          ELSE idx[d] ]

NoOutcome == [ f \in FileIds |-> "none" ]
NoEmbeds  == [ f \in FileIds |-> 0 ]

\* ------------------------------------------------------------------ state
Mtimes == 0 .. 1                 \* 0: the item carries no lastModifiedDateTime
SecondFiles == {"sheet", "pdfSmall"}   \* what the second file of the folder may be

Init ==
  /\ folder \in { {"f1"}, {"f1", "f2"} }
  /\ remote \in [FileIds -> [content : Contents, mtime : Mtimes]]
  /\ remote["f2"].content.name \in SecondFiles
  /\ remote["f2"].mtime = 1
  /\ "f2" \notin folder => remote["f2"].content.name = "sheet"
  /\ index = << >>
  /\ now = MaxMtime + 1
  /\ run = 0
  /\ edits = 0
  /\ dirty = FALSE
  /\ changedBefore = FALSE
  /\ pc = "idle"
  /\ exitCode = -1
  /\ indexedFiles = << >>
  /\ files = << >>
  /\ fileCategories = << >>
  /\ i = 1
  /\ allDocuments = << >>
  /\ counts = ZeroCounts
  /\ batchPos = 1
  /\ outcome = NoOutcome
  /\ downloaded = {}
  /\ extracted = {}
  /\ chunked = {}
  /\ embedCalls = NoEmbeds
  /\ upsertCalls = 0
  /\ sent = << >>
  /\ inFlight = 0
  /\ failure = ""
  /\ queryFailed = FALSE
  /\ prev = [index |-> << >>, clean |-> FALSE]
  /\ idIndex = << >>
  /\ idWritten = {}
  /\ query = [pc |-> "idle"]
  /\ walk = [pc |-> "idle"]
  /\ lister = [pc |-> "idle"]
  /\ chunker = [pc |-> "idle"]
  /\ route = [pc |-> "idle"]
  /\ pair = [pc |-> "idle"]
  /\ cache = [pc |-> "idle"]
  /\ status = [pc |-> "idle"]
  /\ chat = [pc |-> "idle"]
  /\ ingests = [pc |-> "idle"]
  /\ bearer = [pc |-> "idle"]

ErrorOutcomes == {"error_download", "error_extract", "error_embed"}

\* The run at hand ended with exit code 0 and no file raised an error.
RunClean ==
  /\ pc = "exited"
  /\ exitCode = 0
  /\ \A f \in FileIds : outcome[f] \notin ErrorOutcomes

\* process.exit(code)
Exit(code, why) ==
  /\ pc' = "exited"
  /\ exitCode' = code
  /\ failure' = why

\* main() is invoked: validateEnv, getGraphToken, getUserOneDriveInfo.
StartRun(ok) ==
  /\ pc \in {"idle", "exited"}
  /\ run < MaxRuns
  /\ run' = run + 1
  /\ now' = now + 1
  /\ prev' = [index |-> index, clean |-> RunClean]
  /\ changedBefore' = dirty
  /\ dirty' = FALSE
  /\ indexedFiles' = << >>
  /\ files' = << >>
  /\ fileCategories' = << >>
  /\ i' = 1
  /\ allDocuments' = << >>
  /\ counts' = ZeroCounts
  /\ batchPos' = 1
  /\ outcome' = NoOutcome
  /\ downloaded' = {}
  /\ extracted' = {}
  /\ chunked' = {}
  /\ embedCalls' = NoEmbeds
  /\ upsertCalls' = 0
  /\ sent' = << >>
  /\ inFlight' = 0
  /\ queryFailed' = FALSE
  /\ IF ok THEN pc' = "query" /\ exitCode' = -1 /\ failure' = ""
           ELSE Exit(topLevelCatch("auth"), "auth")
  /\ UNCHANGED <<index, remoteVars, pureVars>>

\* await getIndexedFiles(...)
QueryIndex(ok) ==
  /\ pc = "query"
  /\ queryFailed' = ~ok
  /\ LET r == queryIndexedFiles(ok, index)
     IN  IF ~r.threw
         THEN /\ indexedFiles' = r.map
              /\ pc' = "list"
              /\ UNCHANGED <<exitCode, failure>>
         ELSE /\ Exit(topLevelCatch("index_query"), "index_query")
              /\ UNCHANGED indexedFiles
  /\ UNCHANGED <<pureVars, index, now, run, prev, remoteVars, editVars, files, fileCategories, i,
                 allDocuments, counts, batchPos, outcome, downloaded, extracted,
                 chunked, embedCalls, upsertCalls, sent, inFlight>>

\* await listOneDriveFiles(...), then the `files.length === 0` exit.
ListFiles(ok) ==
  /\ pc = "list"
  /\ LET found == SelectSeq(FileOrder,
                            LAMBDA f : f \in folder /\ listedExt(remote[f].content.ext))
     IN  IF ~ok THEN Exit(topLevelCatch("listing"), "listing") /\ UNCHANGED files
         ELSE IF Len(found) = 0 THEN Exit(0, "") /\ files' = found
         ELSE pc' = "categorize" /\ files' = found /\ UNCHANGED <<exitCode, failure>>
  /\ UNCHANGED <<pureVars, queryFailed, index, now, run, prev, remoteVars, editVars,
                 indexedFiles, fileCategories, i,
                 allDocuments, counts, batchPos, outcome, downloaded, extracted,
                 chunked, embedCalls, upsertCalls, sent, inFlight>>

\* First pass: categorize all files.
Categorize ==
  /\ pc = "categorize"
  /\ fileCategories' =
       [ k \in 1 .. Len(files) |->
           [ file |-> files[k],
             category |-> classify(remote[files[k]].content.ext,
                                   mapGet(indexedFiles, files[k]),
                                   remote[files[k]].mtime) ] ]
  /\ i' = 1
  /\ pc' = "process"
  /\ UNCHANGED <<pureVars, queryFailed, index, now, run, prev, remoteVars, editVars,
                 indexedFiles, files, exitCode,
                 allDocuments, counts, batchPos, histVars>>

\* Second pass: one iteration of the loop over fileCategories.
\* dlOk: the download answers 2xx.  embedOk: every embedding call answers
\* 2xx; otherwise the call for chunk index failAt is the first that fails.
ProcessFile(dlOk, embedOk, failAt) ==
  /\ pc = "process"
  /\ i <= Len(fileCategories)
  /\ LET f == fileCategories[i].file
         n == Len(ChunkTable[remote[f].content.name])
         r == processOne(f, fileCategories[i].category, dlOk,
                         IF embedOk THEN n ELSE Min2(failAt, n))
     IN  /\ counts' = r.counts
         /\ allDocuments' = allDocuments \o r.docs
         /\ outcome' = [outcome EXCEPT ![f] = r.outcome]
         /\ downloaded' = IF r.download THEN downloaded \cup {f} ELSE downloaded
         /\ extracted' = IF r.extract THEN extracted \cup {f} ELSE extracted
         /\ chunked' = IF r.chunk THEN chunked \cup {f} ELSE chunked
         /\ embedCalls' = [embedCalls EXCEPT ![f] = r.embeds]
         /\ pc' = IF r.error THEN perFileCatch("process") ELSE "process"
         /\ IF r.error /\ perFileCatch("process") # "process"
            THEN exitCode' = 1 /\ failure' = "file_error"
            ELSE UNCHANGED <<exitCode, failure>>
  /\ i' = i + 1
  /\ UNCHANGED <<pureVars, queryFailed, index, now, run, prev, remoteVars, editVars,
                 indexedFiles, files,
                 fileCategories, batchPos, upsertCalls, sent, inFlight>>

\* After the loop: the pipeline guard.
PipelineGuard ==
  /\ pc = "process"
  /\ i > Len(fileCategories)
  /\ IF Len(allDocuments) = 0
     THEN IF counts.skippedCount > 0 THEN Exit(0, "") ELSE Exit(1, "no_documents")
     ELSE pc' = "upsert" /\ UNCHANGED <<exitCode, failure>>
  /\ batchPos' = 1
  /\ UNCHANGED <<pureVars, queryFailed, index, now, run, prev, remoteVars, editVars,
                 indexedFiles, files, fileCategories,
                 i, allDocuments, counts, outcome, downloaded, extracted, chunked, embedCalls,
                 upsertCalls, sent, inFlight>>

\* One iteration of the batch loop, first half: the batch is cut and the
\* request of upsertToAzureSearch(batch, ...) is sent.
UpsertSend ==
  /\ pc = "upsert"
  /\ batchPos <= Len(allDocuments)
  /\ sent' = Append(sent, batchOf(allDocuments, batchPos))
  /\ upsertCalls' = upsertCalls + 1
  /\ inFlight' = inFlight + 1
  /\ pc' = "upsert_wait"
  /\ UNCHANGED <<pureVars, queryFailed, index, now, run, prev, remoteVars, editVars, runVars,
                 exitCode, failure,
                 outcome, downloaded, extracted, chunked, embedCalls>>

\* Second half: the awaited response arrives.  On 2xx the loop goes on (or
\* main ends with exit(0)); otherwise upsertToAzureSearch throws and the
\* top-level catch ends the run.
UpsertBatch(ok) ==
  /\ pc = "upsert_wait"
  /\ inFlight' = inFlight - 1
  /\ IF ok
     THEN /\ index' = upsert(index, sent[Len(sent)])
          /\ batchPos' = batchPos + batchSize
          /\ IF batchPos + batchSize > Len(allDocuments)
             THEN Exit(0, "")
             ELSE pc' = "upsert" /\ UNCHANGED <<exitCode, failure>>
     ELSE /\ Exit(topLevelCatch("upsert"), "upsert")
          /\ UNCHANGED <<index, batchPos>>
  /\ UNCHANGED <<pureVars, queryFailed, now, run, prev, remoteVars, editVars, indexedFiles,
                 files, fileCategories,
                 i, allDocuments, counts, outcome, downloaded, extracted, chunked, embedCalls,
                 upsertCalls, sent>>

\* Between two runs the owner replaces a file's content; a file that carries
\* a modification time gets a later one.  Only modifications that a later
\* run can see are followed.
RemoteModify(f, c) ==
  /\ pc = "exited"
  /\ run < MaxRuns
  /\ edits < MaxEdits
  /\ f \in folder
  /\ c.ext = remote[f].content.ext
  /\ c # remote[f].content
  /\ remote[f].mtime < MaxMtime
  /\ remote' = [remote EXCEPT ![f] = [content |-> c,
                                      mtime |-> IF @.mtime = 0 THEN 0 ELSE @.mtime + 1]]
  /\ edits' = edits + 1
  /\ dirty' = TRUE
  /\ UNCHANGED <<pureVars, changedBefore, folder, index, now, run, prev, pc, exitCode, runVars,
                 histVars>>

Next ==
  \/ \E ok \in BOOLEAN : StartRun(ok)
  \/ \E ok \in BOOLEAN : QueryIndex(ok)
  \/ \E ok \in BOOLEAN : ListFiles(ok)
  \/ Categorize
  \/ \E dlOk \in BOOLEAN, embedOk \in BOOLEAN, failAt \in EmbedFailPoints :
        ProcessFile(dlOk, embedOk, failAt)
  \/ PipelineGuard
  \/ UpsertSend
  \/ \E ok \in BOOLEAN : UpsertBatch(ok)
  \/ \E f \in FileIds, c \in Contents : RemoteModify(f, c)

Spec == Init /\ [][Next]_vars

TypeOK ==
  /\ folder \subseteq FileIds
  /\ pc \in {"idle", "query", "list", "categorize", "process", "upsert", "upsert_wait",
            "exited"}
  /\ exitCode \in {-1, 0, 1}
  /\ run \in 0 .. MaxRuns
  /\ (pc = "exited") = (exitCode # -1)

\* ------------------------------------------------- study: document ids
\* Identifiers are sequences of characters.  The characters a raw drive item
\* id may hold here: a letter, two digits, the separator the document id
\* uses, and the '!' of the "driveId!itemId" form.
IdChars == {"a", "0", "1", "_", "!"}
RawIds == UNION { [1 .. n -> IdChars] : n \in {1, 2} }
ChunkIndexes == {0, 1, 10}

\* The one state of the pipeline in which the studies run: main() not started.
Quiet ==
  /\ Init
  /\ folder = {"f1"}
  /\ remote["f1"] = remote["f2"]

\* file.id.includes("!") ? file.id.split("!")[1] : file.id
normalizeId(raw) ==
  LET bangs == { k \in 1 .. Len(raw) : raw[k] = "!" }
  IN  IF bangs = {} THEN raw
      ELSE LET first == CHOOSE k \in bangs : \A j \in bangs : k <= j
               later == { k \in bangs : k > first }
               stop  == IF later = {} THEN Len(raw) + 1
                        ELSE CHOOSE k \in later : \A j \in later : k <= j
           IN  SubSeq(raw, first + 1, stop - 1)

\* Number -> string conversion of a template literal: decimal digits.
Digits == <<"0", "1", "2", "3", "4", "5", "6", "7", "8", "9">>

RECURSIVE decimal(_)
decimal(n) ==
  IF n < 10 THEN <<Digits[n + 1]>>
  ELSE decimal(n \div 10) \o <<Digits[(n % 10) + 1]>>

\* docIdString without the separator between file id and chunk index.
docIdStringNoSeparator(fileId, chunkIdx) == fileId \o decimal(chunkIdx)

\* `${fileId}_${chunkIdx}`
docIdString(fileId, chunkIdx) == fileId \o <<"_">> \o decimal(chunkIdx)

\* `${fileId}_chunk_${chunkIdx}`
chunkIdString(fileId, chunkIdx) ==
  fileId \o <<"_", "c", "h", "u", "n", "k", "_">> \o decimal(chunkIdx)

\* A document of chunk chunkIdx of the file with the given raw id is made and
\* upserted: the index replaces or inserts by document id.
UpsertById(raw, chunkIdx) ==
  LET fileId == normalizeId(raw)
      id     == docIdString(fileId, chunkIdx)
      doc    == [file_id |-> fileId, chunk_offset |-> chunkIdx,
                 chunk_id |-> chunkIdString(fileId, chunkIdx)]
  IN  /\ Cardinality(idWritten \cup {<<fileId, chunkIdx>>}) <= MaxIdDocs
      /\ idIndex' = [ k \in DOMAIN idIndex \cup {id} |-> IF k = id THEN doc ELSE idIndex[k] ]
      /\ idWritten' = idWritten \cup {<<fileId, chunkIdx>>}
      /\ UNCHANGED <<folder, remote, index, now, run, edits, editVars, pc, exitCode,
                     runVars, histVars, prev, query, walk,
                     lister, chunker, route, pair, cache, webVars>>

NextIds == \E raw \in RawIds, chunkIdx \in ChunkIndexes : UpsertById(raw, chunkIdx)

SpecIds == Quiet /\ [][NextIds]_vars

\* ---------------------------------------------- study: getIndexedFiles
\* One call of getIndexedFiles against an index that holds the tenant's
\* documents docAt(q, 1) .. docAt(q, q.n) in the order of the request
\* (orderby file_id).  A file id of 0 stands for a document without file_id,
\* an updated_at of 0 for one without updated_at; updated_at values are
\* timestamps in one format, so that their string order is their time order.
top == 1000

DocCounts == {0, 1, 999, 1000, 1001, 2000, 2001}
QueryInputs == [n : DocCounts, nf : {1, 3}, first : {0, 1}, pat : {1, 2, 3}]

docAt(q, k) ==
  [ file_id    |-> ((k - 1) * q.nf) \div q.n + q.first,
    updated_at |-> CASE q.pat = 1 -> 1
                     [] q.pat = 2 -> (k \div 500) + 1
                     [] q.pat = 3 -> (q.n - k) % 3 ]

\* The answer to a request with the given skip and top: its `value` array,
\* as the positions of the documents it holds.
pageOf(q, skip) ==
  [ j \in 1 .. (IF q.n - skip < 0 THEN 0 ELSE Min2(top, q.n - skip)) |-> skip + j ]

\* `results.length < top` taken for `results.length <= top`.
lastPageInclusive(len) == len <= top

\* if (results.length < top) break;
lastPage(len) == len < top

\* Body of the `for (const doc of results)` loop.
reduceDoc(m, doc) ==
  IF doc.file_id = 0 THEN m
  ELSE LET existing == mapGet(m, doc.file_id)
       IN  IF existing = 0 \/ (doc.updated_at # 0 /\ doc.updated_at > existing)
           THEN [ f \in DOMAIN m \cup {doc.file_id} |->
                    IF f = doc.file_id THEN doc.updated_at ELSE m[f] ]
           ELSE m

\* getIndexedFiles is called: new Map(), skip = 0.
QueryStart(q) ==
  /\ query.pc = "idle"
  /\ query' = [pc |-> "fetch", in |-> q, skip |-> 0, results |-> << >>, k |-> 1,
               map |-> << >>, requests |-> 0]

\* One request of the while loop and the `results.length === 0` break.
QueryFetch ==
  /\ query.pc = "fetch"
  /\ LET results == pageOf(query.in, query.skip)
     IN  query' = [query EXCEPT !.results = results, !.k = 1, !.requests = @ + 1,
                                !.pc = IF Len(results) = 0 THEN "done" ELSE "reduce"]

\* One iteration of the loop over the page.
QueryReduce ==
  /\ query.pc = "reduce"
  /\ query.k <= Len(query.results)
  /\ query' = [query EXCEPT !.map = reduceDoc(@, docAt(query.in, query.results[query.k])),
                            !.k = @ + 1]

\* After the page: the undersized-page break, or skip += top.
QueryNextPage ==
  /\ query.pc = "reduce"
  /\ query.k > Len(query.results)
  /\ query' = IF lastPage(Len(query.results))
              THEN [query EXCEPT !.pc = "done"]
              ELSE [query EXCEPT !.pc = "fetch", !.skip = @ + top]

NextQuery ==
  /\ \/ \E q \in QueryInputs : QueryStart(q)
     \/ QueryFetch
     \/ QueryReduce
     \/ QueryNextPage
  /\ UNCHANGED <<folder, remote, index, now, run, edits, editVars, pc, exitCode,
                 runVars, histVars, prev, idIndex, idWritten, walk,
                 lister, chunker, route, pair, cache, webVars>>

SpecQuery == Quiet /\ [][NextQuery]_vars

\* ------------------------------------------------ study: folder path
\* The drive is a set of items [id, name, parent, folder]; names and paths
\* are sequences of characters, and no name holds a '/'.
rootId == "root"

DriveItems ==
  { [id |-> "i1", name |-> <<"A">>,      parent |-> rootId, folder |-> TRUE],
    [id |-> "i2", name |-> <<"B">>,      parent |-> "i1",   folder |-> TRUE],
    [id |-> "i3", name |-> <<"B">>,      parent |-> rootId, folder |-> FALSE],
    [id |-> "i4", name |-> <<"A", "B">>, parent |-> rootId, folder |-> TRUE],
    [id |-> "i5", name |-> <<"B">>,      parent |-> rootId, folder |-> TRUE],
    [id |-> "i6", name |-> <<"A">>,      parent |-> "i1",   folder |-> FALSE] }

\* The drives studied: every item's parent exists, and no two children of a
\* folder have the same name.
Drives ==
  { d \in SUBSET DriveItems :
      /\ \A x \in d : x.parent = rootId \/ \E y \in d : y.id = x.parent /\ y.folder
      /\ \A x \in d, y \in d : (x.parent = y.parent /\ x.name = y.name) => x = y }

\* ONEDRIVE_FOLDER_PATH values: one or two names, with or without the
\* leading slash.
PathNames == { <<"A">>, <<"B">>, <<"A", "B">> }
FolderPaths ==
  LET rel == PathNames \cup { a \o <<"/">> \o b : a \in PathNames, b \in PathNames }
  IN  rel \cup { <<"/">> \o r : r \in rel }

\* The `value` of a children request for the folder with the given id.
children(drive, id) == { x \in drive : x.parent = id }

\* folderPath.replace(/^\//, "")
stripLeadingSlash(path) == IF path # << >> /\ path[1] = "/" THEN Tail(path) ELSE path

\* s.split("/").filter((p) => p)
RECURSIVE splitSlash(_)
splitSlash(s) ==
  LET slashes == { k \in 1 .. Len(s) : s[k] = "/" }
  IN  IF slashes = {} THEN (IF s = << >> THEN << >> ELSE <<s>>)
      ELSE LET k    == CHOOSE x \in slashes : \A y \in slashes : x <= y
               head == SubSeq(s, 1, k - 1)
               rest == splitSlash(SubSeq(s, k + 1, Len(s)))
           IN  IF head = << >> THEN rest ELSE <<head>> \o rest

\* listOneDriveFiles, "find target folder": the id of the folder the
\* recursion starts from, or "not_found" when it throws.
findTargetFolder(drive, folderPath) ==
  LET folderName == stripLeadingSlash(folderPath)
      found      == { x \in children(drive, rootId) : x.name = folderName /\ x.folder }
  IN  IF found = {} THEN "not_found" ELSE (CHOOSE x \in found : TRUE).id

\* resolveFolderPath of lib/msgraph.ts (no caller in the repository).
RECURSIVE resolveParts(_, _, _)
resolveParts(drive, currentId, parts) ==
  IF parts = << >> THEN currentId
  ELSE LET found == { x \in children(drive, currentId) : x.name = parts[1] /\ x.folder }
       IN  IF found = {} THEN "not_found"
           ELSE resolveParts(drive, (CHOOSE x \in found : TRUE).id, Tail(parts))

resolveFolderPath(drive, folderPath) ==
  IF folderPath = << >> \/ folderPath = <<"/">> THEN rootId
  ELSE resolveParts(drive, rootId, splitSlash(stripLeadingSlash(folderPath)))

\* The ingestion script resolves its configured folder.
ResolveInScript(drive, path) ==
  /\ walk.pc = "idle"
  /\ walk' = [pc |-> "done", by |-> "script", drive |-> drive, path |-> path,
              result |-> findTargetFolder(drive, path)]

\* The library function resolves the same path.
ResolveInLib(drive, path) ==
  /\ walk.pc = "idle"
  /\ walk' = [pc |-> "done", by |-> "lib", drive |-> drive, path |-> path,
              result |-> resolveFolderPath(drive, path)]

NextPath ==
  /\ \E drive \in Drives, path \in FolderPaths :
        ResolveInScript(drive, path) \/ ResolveInLib(drive, path)
  /\ UNCHANGED <<folder, remote, index, now, run, edits, editVars, pc, exitCode,
                 runVars, histVars, prev, idIndex, idWritten, query,
                 lister, chunker, route, pair, cache, webVars>>

SpecPath == Quiet /\ [][NextPath]_vars

\* --------------------------------------------- study: recursive listing
\* One listing of the configured folder, by listOneDriveFiles of the
\* ingestion script or by listOneDriveFolder of lib/msgraph.ts, against a
\* drive that answers a children request page by page.  The drive's items
\* are [id, name, parent, folder, ext]; children are served in the order of
\* ListOrder, pageSize to a page, with an @odata.nextLink while more follow.
\* An id is served bare, <<id>>, or composite, <<"d", "!", id>>; a request
\* for either form of an id reaches the item.
ListItems ==
  { [id |-> "n0", name |-> "Z",      parent |-> rootId, folder |-> TRUE,  ext |-> ""],
    [id |-> "n1", name |-> "A",      parent |-> rootId, folder |-> TRUE,  ext |-> ""],
    [id |-> "n2", name |-> "a.pdf",  parent |-> "n1",   folder |-> FALSE, ext |-> "pdf"],
    [id |-> "n3", name |-> "S",      parent |-> "n1",   folder |-> TRUE,  ext |-> ""],
    [id |-> "n4", name |-> "b.docx", parent |-> "n3",   folder |-> FALSE, ext |-> "docx"],
    [id |-> "n5", name |-> "c.txt",  parent |-> "n3",   folder |-> FALSE, ext |-> "txt"],
    [id |-> "n6", name |-> "d.pdf",  parent |-> "n1",   folder |-> FALSE, ext |-> "pdf"] }

ListOrder == <<"n0", "n1", "n2", "n3", "n4", "n5", "n6">>

ListDrives ==
  { d \in SUBSET ListItems :
      \A x \in d : x.parent = rootId \/ \E y \in d : y.id = x.parent /\ y.folder }

PageSizes == {1, 2}

ListInputs ==
  { in \in [drive : ListDrives, pageSize : PageSizes, rootComposite : BOOLEAN,
            itemComposite : BOOLEAN, by : {"script", "lib"}, recursive : BOOLEAN,
            folderName : {"A"}] :
      in.by = "script" => in.recursive }

\* The id of an item as the drive serves it.
servedId(id, composite) == IF composite THEN <<"d", "!", id>> ELSE <<id>>

\* getUserOneDriveInfo: rootData.id, as served.
servedRootId(in) == servedId(rootId, in.rootComposite)

\* All children of the folder the request URL names, in serving order.
childrenInOrder(in, urlId) ==
  LET bare == normalizeId(urlId)[1]
      kids == { x.id : x \in children(in.drive, bare) }
      ord  == SelectSeq(ListOrder, LAMBDA id : id \in kids)
  IN  [ k \in 1 .. Len(ord) |->
          LET x == CHOOSE y \in in.drive : y.id = ord[k]
          IN  [id |-> servedId(x.id, in.itemComposite), name |-> x.name,
               folder |-> x.folder, ext |-> x.ext] ]

\* The answer to the request for page `page` of that listing: its `value`
\* and whether it carries an @odata.nextLink.
childrenPage(in, urlId, page) ==
  LET all  == childrenInOrder(in, urlId)
      from == (page - 1) * in.pageSize + 1
      to   == Min2(page * in.pageSize, Len(all))
  IN  [value |-> SubSeq(all, from, to), nextLink |-> to < Len(all)]

\* The folder lookup both listings start with: one request for the root's
\* children, whose first answer is searched for the folder of the given name.
rootLookup(in) ==
  LET value == childrenPage(in, servedRootId(in), 1).value
      found == { k \in 1 .. Len(value) :
                   value[k].name = in.folderName /\ value[k].folder }
  IN  IF found = {} THEN << >>
      ELSE normalizeId(value[CHOOSE k \in found : \A j \in found : k <= j].id)

\* What one answer adds to the result when it arrives: the library pushes
\* the whole `value`, the script nothing yet.
pushPage(in, value) == IF in.by = "lib" THEN value ELSE << >>

\* What one item of the answer adds when the loop over `value` reaches it: the
\* script pushes a file of a listed extension.
pushItem(in, item) ==
  IF in.by = "script" /\ ~item.folder /\ listedExt(item.ext) THEN <<item>> ELSE << >>

\* Whether the loop over `value` descends into the item.
descends(in, item) == item.folder /\ in.recursive

\* The listing is called.
ListStart(in) ==
  /\ lister.pc = "idle"
  /\ lister' = [pc |-> "root", in |-> in, stack |-> << >>, result |-> << >>,
                requests |-> << >>, error |-> "", d |-> 1]

\* The root children request and the search for the configured folder.
ListRootLookup(ok) ==
  /\ lister.pc = "root"
  /\ LET in       == lister.in
         folderId == rootLookup(in)
         asked    == Append(lister.requests, servedRootId(in))
     IN  lister' =
           IF ~ok THEN [lister EXCEPT !.pc = "failed", !.error = "http", !.requests = asked]
           ELSE IF folderId = << >>
           THEN [lister EXCEPT !.pc = "failed", !.error = "not_found", !.requests = asked]
           ELSE [lister EXCEPT !.pc = "fetch", !.requests = asked,
                               !.stack = <<[itemId |-> folderId, page |-> 1,
                                            value |-> << >>, k |-> 1]>>]

\* One pass of `while (nextLink)` up to the loop over the answer's items.
ListFetch(ok) ==
  /\ lister.pc = "fetch"
  /\ LET top_  == Len(lister.stack)
         frame == lister.stack[top_]
         page  == childrenPage(lister.in, frame.itemId, frame.page)
         asked == Append(lister.requests, frame.itemId)
     IN  lister' =
           IF ~ok THEN [lister EXCEPT !.pc = "failed", !.error = "http", !.requests = asked]
           ELSE [lister EXCEPT
                   !.pc = "items",
                   !.requests = asked,
                   !.result = @ \o pushPage(lister.in, page.value),
                   !.stack[top_] = [frame EXCEPT !.value = page.value, !.k = 1,
                                      !.page = IF page.nextLink THEN frame.page + 1 ELSE 0]]

\* One item of the answer: kept, descended into, or passed over.
ListItem ==
  /\ lister.pc = "items"
  /\ LET top_  == Len(lister.stack)
         frame == lister.stack[top_]
     IN  /\ frame.k <= Len(frame.value)
         /\ LET item    == frame.value[frame.k]
                stepped == [lister.stack EXCEPT ![top_].k = @ + 1]
            IN  lister' =
                  IF descends(lister.in, item)
                  THEN [lister EXCEPT
                          !.pc = "fetch",
                          !.stack = Append(stepped, [itemId |-> normalizeId(item.id),
                                                     page |-> 1, value |-> << >>, k |-> 1])]
                  ELSE [lister EXCEPT !.stack = stepped,
                                      !.result = @ \o pushItem(lister.in, item)]

\* The answer's items are done: nextLink is followed, or the call returns to
\* its caller; the outermost return ends the listing.
ListPageEnd ==
  /\ lister.pc = "items"
  /\ LET top_  == Len(lister.stack)
         frame == lister.stack[top_]
     IN  /\ frame.k > Len(frame.value)
         /\ lister' =
              IF frame.page # 0 THEN [lister EXCEPT !.pc = "fetch"]
              ELSE IF top_ > 1
              THEN [lister EXCEPT !.stack = SubSeq(lister.stack, 1, top_ - 1)]
              ELSE [lister EXCEPT !.stack = << >>,
                                  !.pc = IF lister.in.by = "script" THEN "download"
                                         ELSE "done"]

\* main() of the script asks for the content of the next listed file.
ListDownload ==
  /\ lister.pc = "download"
  /\ lister' =
       IF lister.d > Len(lister.result) THEN [lister EXCEPT !.pc = "done"]
       ELSE [lister EXCEPT !.d = @ + 1,
                           !.requests = Append(@, normalizeId(lister.result[lister.d].id))]

NextList ==
  /\ \/ \E in \in ListInputs : ListStart(in)
     \/ \E ok \in BOOLEAN : ListRootLookup(ok)
     \/ \E ok \in BOOLEAN : ListFetch(ok)
     \/ ListItem
     \/ ListPageEnd
     \/ ListDownload
  /\ UNCHANGED <<pipelineVars, idIndex, idWritten, query, walk, chunker, route, pair, cache,
               webVars>>

SpecList == Quiet /\ [][NextList]_vars

\* ------------------------------------------------------ study: chunkText
\* One call of chunkText(text, chunkSize, overlap), pass by pass.  A text is
\* [len, dots, newlines, blanks]: its length and the positions (from 0) of
\* its '.', its newlines and its other whitespace; every other character is
\* a letter.  Characters are told apart by their position, so a piece of the
\* text is the interval [from, to) of positions it holds.
Text(len, dots, newlines, blanks) ==
  [len |-> len, dots |-> dots, newlines |-> newlines, blanks |-> blanks]

PlainLengths == {0, 1, 199, 200, 201, 800, 801, 999, 1000, 1001, 1600, 1800, 2000}

ChunkTexts ==
  { Text(len, {}, {}, {}) : len \in PlainLengths }
  \cup { Text(len, {d}, {}, {}) : len \in {1500, 2400}, d \in {400, 500, 501, 700, 999, 1000} }
  \cup { Text(1500, {}, {n}, {}) : n \in {501, 900} }
  \cup { Text(1700, {600}, {650, 1300}, {}) }
  \cup { Text(1500, {}, {}, b) :
           b \in { 0 .. 9, 990 .. 999, 800 .. 809, 995 .. 1004, 1490 .. 1499, 990 .. 1499 } }

\* <<chunkSize, overlap>>; the first pair is the defaults, which main uses.
ChunkParams == { <<ChunkSize, Overlap>>, <<1000, 500>>, <<1000, 600>>, <<400, 100>> }

ChunkInputs ==
  { [text |-> x, chunkSize |-> p[1], overlap |-> p[2]] : x \in ChunkTexts, p \in ChunkParams }

\* text.lastIndexOf(ch, fromIndex) for the character at the given positions.
lastIndexOf(positions, fromIndex) ==
  LET before == { q \in positions : q <= fromIndex }
  IN  IF before = {} THEN -1 ELSE Max(before)

\* The end of the window that starts at start: start + chunkSize, or just
\* behind the last '.' or newline at or before it when the text goes on and
\* that break point lies beyond the window's half.
windowEnd(text, start, chunkSize) ==
  LET end == start + chunkSize
  IN  IF end < text.len
      THEN LET lastPeriod  == lastIndexOf(text.dots, end)
               lastNewline == lastIndexOf(text.newlines, end)
               breakPoint  == IF lastPeriod > lastNewline THEN lastPeriod ELSE lastNewline
           IN  IF 2 * breakPoint > 2 * start + chunkSize THEN breakPoint + 1 ELSE end
      ELSE end

\* text.slice(start, end): a negative index counts from the end of the text.
sliceIndex(len, k) == IF k < 0 THEN (IF len + k < 0 THEN 0 ELSE len + k) ELSE Min2(k, len)

slice(text, start, end) ==
  LET from == sliceIndex(text.len, start)
      to   == sliceIndex(text.len, end)
  IN  [from |-> from, to |-> IF to < from THEN from ELSE to]

\* piece.trim(): whitespace is dropped from both ends.
trim(text, piece) ==
  LET white == text.blanks \cup text.newlines
      inner == { q \in piece.from .. piece.to - 1 : q \notin white }
  IN  IF inner = {} THEN [from |-> piece.from, to |-> piece.from]
      ELSE [from |-> CHOOSE q \in inner : \A r \in inner : q <= r,
            to   |-> Max(inner) + 1]

\* keepsChunk measuring the piece before it is trimmed.
keepsChunkUntrimmed(piece, trimmed) == piece.to - piece.from >= MinChunkLen

\* if (chunk.length >= 200)
keepsChunk(piece, trimmed) == trimmed.to - trimmed.from >= MinChunkLen

\* nextStart without the overlap.
nextStartNoOverlap(end, overlap) == end

\* start = end - overlap
nextStart(end, overlap) == end - overlap

\* loopGoesOn stopping where only the overlap is left.
loopGoesOnPastOverlap(start, len, overlap) == start + overlap < len

\* while (start < text.length), and `if (start >= text.length) break`
loopGoesOn(start, len, overlap) == start < len

\* chunkText is called: chunks = [], start = 0.
ChunkStart(in) ==
  /\ chunker.pc = "idle"
  /\ chunker' = [pc |-> IF loopGoesOn(0, in.text.len, in.overlap) THEN "loop" ELSE "done",
                 in |-> in, start |-> 0, chunks |-> << >>, windows |-> << >>]

\* One pass of the loop.
ChunkPass ==
  /\ chunker.pc = "loop"
  /\ Len(chunker.windows) < MaxPasses
  /\ LET in      == chunker.in
         end     == windowEnd(in.text, chunker.start, in.chunkSize)
         piece   == slice(in.text, chunker.start, end)
         chunk   == trim(in.text, piece)
         keep    == keepsChunk(piece, chunk)
         start_  == nextStart(end, in.overlap)
     IN  chunker' = [chunker EXCEPT
           !.pc      = IF loopGoesOn(start_, in.text.len, in.overlap) THEN "loop" ELSE "done",
           !.start   = start_,
           !.chunks  = IF keep THEN Append(@, chunk) ELSE @,
           !.windows = Append(@, [start |-> chunker.start, end |-> end,
                                  cut |-> end # chunker.start + in.chunkSize,
                                  piece |-> piece, chunk |-> chunk, kept |-> keep])]

NextChunk ==
  /\ \/ \E in \in ChunkInputs : ChunkStart(in)
     \/ ChunkPass
  /\ UNCHANGED <<pipelineVars, idIndex, idWritten, query, walk, lister, route, pair, cache,
               webVars>>

SpecChunk == Quiet /\ [][NextChunk]_vars

\* ------------------------------------------------- study: POST /api/ingest
\* One request to the ingest route.  The route spawns the ingestion script
\* as a child process, arms a timer, collects the child's output and answers
\* through resolvePromise; only the first call of resolvePromise answers.
\* Time is counted in minutes.  A line of output is "error" when the route's
\* filter keeps it (it holds Error, error, SKIPPED or FAILED), else "info".
TimeoutMinutes == 30

NoResponse == [kind |-> "none"]

ExitCodes == {"0", "1", "null"}     \* "null": the child was ended by a signal

\* The answer of the timeout handler.
timeoutResponse ==
  [kind |-> "timeout", success |-> FALSE, status |-> 500,
   message |-> "Ingestion timeout after 30 minutes"]

\* The answer of the close handler.
closeResponse(code, out) ==
  IF code = "0"
  THEN [kind |-> "completed", success |-> TRUE, status |-> 200,
        message |-> "Ingestion completed successfully"]
  ELSE [kind |-> "failed", success |-> FALSE, status |-> 500,
        message |-> "Ingestion failed with exit code", exitCode |-> code,
        errorLines |-> SelectSeq(out, LAMBDA line : line = "error")]

\* The answer of the error handler.
errorResponse ==
  [kind |-> "not_started", success |-> FALSE, status |-> 500,
   message |-> "Failed to start ingestion process"]

\* A promise that takes every resolution.
resolvePromiseLast(current, r) == r

\* resolvePromise(r): a promise keeps its first resolution.
resolvePromise(current, r) == IF current = NoResponse THEN r ELSE current

\* The timeout handler leaving the request unanswered.
timeoutActsKillOnly(child, killed) == [kill |-> child # "none" /\ ~killed, answer |-> FALSE]

\* if (child && !child.killed) { child.kill(); resolvePromise(...) }
timeoutActs(child, killed) ==
  [kill |-> child # "none" /\ ~killed, answer |-> child # "none" /\ ~killed]

\* POST: the timer is armed and the child spawned.
RoutePost(isWindows) ==
  /\ route.pc = "idle"
  /\ route' = [pc |-> "waiting", command |-> IF isWindows THEN "cmd.exe" ELSE "npx",
               child |-> "running", killed |-> FALSE, timer |-> "armed", minutes |-> 0,
               out |-> << >>, closeCode |-> "none", response |-> NoResponse]

\* A minute passes; an armed timer does not let its time go by.
RouteMinute ==
  /\ route.pc # "idle"
  /\ route.minutes < TimeoutMinutes
  /\ route' = [route EXCEPT !.minutes = @ + 1]

\* The timer fires.
RouteTimeout ==
  /\ route.pc # "idle"
  /\ route.timer = "armed"
  /\ route.minutes = TimeoutMinutes
  /\ LET acts == timeoutActs(route.child, route.killed)
     IN  route' = [route EXCEPT
           !.timer    = "fired",
           !.killed   = @ \/ acts.kill,
           !.response = IF acts.answer THEN resolvePromise(@, timeoutResponse) ELSE @,
           !.pc       = IF acts.answer THEN "answered" ELSE @]

\* The child writes a line to stdout or stderr.
RouteData(line) ==
  /\ route.pc # "idle"
  /\ route.child = "running"
  /\ Len(route.out) < MaxLines
  /\ route' = [route EXCEPT !.out = Append(@, line)]

\* The child's 'close' event; a child ended by the kill closes with code null.
RouteClose(code) ==
  /\ route.pc # "idle"
  /\ route.child = "running"
  /\ (code = "null") => route.killed
  /\ route' = [route EXCEPT
       !.child    = "closed",
       !.closeCode = code,
       !.timer    = IF @ = "armed" THEN "cleared" ELSE @,
       !.response = resolvePromise(@, closeResponse(code, route.out)),
       !.pc       = "answered"]

\* The child's 'error' event: the process could not be started.
RouteError ==
  /\ route.pc = "waiting"
  /\ route.child = "running"
  /\ route.minutes = 0 /\ route.out = << >>
  /\ route' = [route EXCEPT
       !.child    = "failed",
       !.timer    = "cleared",
       !.response = resolvePromise(@, errorResponse),
       !.pc       = "answered"]

NextRoute ==
  /\ \/ \E isWindows \in BOOLEAN : RoutePost(isWindows)
     \/ RouteMinute
     \/ RouteTimeout
     \/ \E line \in {"info", "error"} : RouteData(line)
     \/ \E code \in ExitCodes : RouteClose(code)
     \/ RouteError
  /\ UNCHANGED <<pipelineVars, idIndex, idWritten, query, walk, lister, chunker, pair, cache,
               webVars>>

SpecRoute == Quiet /\ [][NextRoute]_vars

\* The event loop runs its timers: time goes on and a due timer fires.  The
\* child owes the route nothing: it may run, and stay silent, for ever.
SpecRouteFair ==
  /\ SpecRoute
  /\ WF_vars(RouteMinute /\ UNCHANGED <<pipelineVars, idIndex, idWritten, query, walk,
                                        lister, chunker, pair, cache, webVars>>)
  /\ WF_vars(RouteTimeout /\ UNCHANGED <<pipelineVars, idIndex, idWritten, query, walk,
                                         lister, chunker, pair, cache, webVars>>)

\* ------------------------------------------------- study: getGraphToken
\* The module-level token cache and the callers of getGraphToken in one
\* process.  Time is counted in minutes and an exchange with the token
\* endpoint takes none of it; a caller that awaits the exchange may be
\* overtaken by another caller.  A token is [issuedAt, expiresIn]: it is
\* valid until issuedAt + expiresIn.
MarginMinutes == 5          \* 5 * 60 * 1000 ms, and the 300 s taken off expires_in

Callers == {1, 2}
ExpiresIn == {4, 12}        \* expires_in of a token response, in minutes

NoToken == [token |-> "none"]
Outside == [pc |-> "out"]

\* Minutes of validity the token has left at the given time.
validityLeft(token, at) == token.issuedAt + token.expiresIn - at

\* cacheFresh that never looks at the expiry.
cacheFreshForEver(cached, at) == cached # NoToken

\* cachedToken && cachedToken.expiresAt > Date.now() + 5 * 60 * 1000
cacheFresh(cached, at) == cached # NoToken /\ cached.expiresAt > at + MarginMinutes

\* { token: data.access_token, expiresAt: Date.now() + (data.expires_in - 300) * 1000 }
cacheEntry(token, at) == [token |-> token, expiresAt |-> at + (token.expiresIn - MarginMinutes)]

\* The module is loaded: let cachedToken = null, no caller inside.
CacheLoad ==
  /\ cache.pc = "idle"
  /\ cache' = [pc |-> "loaded", clock |-> 0, cached |-> NoToken,
               callers |-> [c \in Callers |-> Outside], exchanges |-> 0]

\* A minute passes while no exchange is awaited.
CacheMinute ==
  /\ cache.pc = "loaded"
  /\ cache.clock < MaxClock
  /\ \A c \in Callers : cache.callers[c].pc # "fetching"
  /\ cache' = [cache EXCEPT !.clock = @ + 1]

\* getGraphToken up to its first await: the cached token is returned, or the
\* token request is sent.
TokenCall(c) ==
  /\ cache.pc = "loaded"
  /\ cache.callers[c].pc # "fetching"
  /\ cache' =
       IF cacheFresh(cache.cached, cache.clock)
       THEN [cache EXCEPT !.callers[c] = [pc |-> "returned", token |-> cache.cached.token,
                                          fromCache |-> TRUE]]
       ELSE [cache EXCEPT !.callers[c] = [pc |-> "fetching"],
                          !.exchanges = @ + 1]

\* The token endpoint answers with a token: it is cached and returned.
TokenAnswer(c, expiresIn) ==
  /\ cache.pc = "loaded"
  /\ cache.callers[c].pc = "fetching"
  /\ LET token == [issuedAt |-> cache.clock, expiresIn |-> expiresIn]
     IN  cache' = [cache EXCEPT
           !.cached     = cacheEntry(token, cache.clock),
           !.exchanges  = @ - 1,
           !.callers[c] = [pc |-> "returned", token |-> token, fromCache |-> FALSE]]

\* The token endpoint answers with an error status (or, for the library,
\* without access_token): getGraphToken throws.
TokenRefused(c) ==
  /\ cache.pc = "loaded"
  /\ cache.callers[c].pc = "fetching"
  /\ cache' = [cache EXCEPT
       !.exchanges  = @ - 1,
       !.callers[c] = [pc |-> "threw"]]

NextToken ==
  /\ \/ CacheLoad
     \/ CacheMinute
     \/ \E c \in Callers : TokenCall(c)
     \/ \E c \in Callers, expiresIn \in ExpiresIn : TokenAnswer(c, expiresIn)
     \/ \E c \in Callers : TokenRefused(c)
  /\ UNCHANGED <<pipelineVars, idIndex, idWritten, query, walk, lister, chunker, route, pair,
               webVars>>

SpecToken == Quiet /\ [][NextToken]_vars

\* ------------------------------------------------ study: two runs at once
\* A second invocation of the script, started while main() above is running
\* or between its runs, against the same index and the same, unmodified
\* folder.  The second run is followed where it meets the first: its index
\* query, and the sending and the answer of each of its upsert requests.
\* Everything it does in between (listing, both passes) touches only its own
\* memory and the unchanging folder and is one step.  Its requests are
\* answered 2xx; the files it cannot parse fail as they do in any run.
PairFirstFiles == {"pdfSmall", "docTwoBatches"}

PairInit ==
  /\ Init
  /\ folder = FileIds
  /\ remote["f1"].content.name \in PairFirstFiles
  /\ remote["f2"] = [content |-> CHOOSE c \in Contents : c.name = "pdfSmall", mtime |-> 1]

\* The documents the second run makes of file f: those of processOne when
\* no request fails, with the second run's own map and clock.
otherDocsOf(f, indexed, clock) ==
  LET c        == remote[f].content
      category == classify(c.ext, mapGet(indexed, f), remote[f].mtime)
      chunks   == ChunkTable[c.name]
  IN  IF \/ ~entersPipeline(category)
         \/ tooLarge(c.bytes)
         \/ ~c.parseOk
         \/ tooMuchText(c.textLen)
         \/ tooManyChunks(Len(chunks))
      THEN << >>
      ELSE embedLoop(f, chunks, Len(chunks), c, remote[f].mtime, clock)

\* allDocuments of the second run after its loop over the listed files.
otherDocuments(indexed, clock) ==
  LET found == SelectSeq(FileOrder,
                         LAMBDA f : f \in folder /\ listedExt(remote[f].content.ext))
  IN  IF Len(found) = 0 THEN << >>
      ELSE IF Len(found) = 1 THEN otherDocsOf(found[1], indexed, clock)
      ELSE otherDocsOf(found[1], indexed, clock) \o otherDocsOf(found[2], indexed, clock)

\* The second process is started.
OtherStart ==
  /\ pair.pc = "idle"
  /\ pc # "idle"
  /\ now' = now + 1
  /\ pair' = [pc |-> "query", clock |-> now + 1, startedAt |-> pc, startedRun |-> run,
              indexedFiles |-> << >>, documents |-> << >>, batchPos |-> 1, sent |-> 0]
  /\ UNCHANGED index

\* Its getIndexedFiles, then its listing and its two passes up to the
\* pipeline guard.
OtherQueryAndProcess ==
  /\ pair.pc = "query"
  /\ LET indexed == getIndexedFiles(index)
         docs    == otherDocuments(indexed, pair.clock)
     IN  pair' = [pair EXCEPT !.indexedFiles = indexed, !.documents = docs,
                              !.pc = IF Len(docs) = 0 THEN "exited" ELSE "upsert"]
  /\ UNCHANGED <<index, now>>

\* Its batch loop: a request is sent.
OtherUpsertSend ==
  /\ pair.pc = "upsert"
  /\ pair' = [pair EXCEPT !.pc = "upsert_wait", !.sent = @ + 1]
  /\ UNCHANGED <<index, now>>

\* Its batch loop: the request is answered.
OtherUpsertBatch ==
  /\ pair.pc = "upsert_wait"
  /\ index' = upsert(index, batchOf(pair.documents, pair.batchPos))
  /\ pair' = [pair EXCEPT !.batchPos = @ + batchSize,
                          !.pc = IF pair.batchPos + batchSize > Len(pair.documents)
                                 THEN "exited" ELSE "upsert"]
  /\ UNCHANGED now

OtherRun ==
  /\ \/ OtherStart
     \/ OtherQueryAndProcess
     \/ OtherUpsertSend
     \/ OtherUpsertBatch
  /\ UNCHANGED <<folder, remote, run, edits, dirty, changedBefore, pc, exitCode,
                 indexedFiles, files, fileCategories, i, allDocuments, counts, batchPos,
                 outcome, downloaded, extracted, chunked, embedCalls, upsertCalls, sent,
                 inFlight, failure, queryFailed, prev,
                 idIndex, idWritten, query, walk, lister, chunker, route, cache, webVars>>

\* The first process is not started again once the second has joined: the
\* study ends when both have ended.
NextPair ==
  \/ \E ok \in BOOLEAN : pair.pc = "idle" /\ StartRun(ok)
  \/ \E ok \in BOOLEAN : QueryIndex(ok)
  \/ \E ok \in BOOLEAN : ListFiles(ok)
  \/ Categorize
  \/ \E dlOk \in BOOLEAN, embedOk \in BOOLEAN, failAt \in EmbedFailPoints :
        ProcessFile(dlOk, embedOk, failAt)
  \/ PipelineGuard
  \/ UpsertSend
  \/ \E ok \in BOOLEAN : UpsertBatch(ok)
  \/ OtherRun

SpecPair == PairInit /\ [][NextPair]_vars

\* ------------------------------------------------- study: GET /api/status
\* One server process answering status requests.  The environment is fixed
\* when the process starts; getConfig caches the configuration once it has
\* validated.  Requests are handled concurrently: a handler gives way at
\* each await.  An entry of the errors list is <<what failed, its message>>.
requiredEnvVars ==
  << "OPENAI_API_KEY", "OPENAI_CHAT_MODEL", "OPENAI_EMBED_MODEL", "MS_TENANT_ID",
     "MS_CLIENT_ID", "MS_CLIENT_SECRET", "ONEDRIVE_USER_PRINCIPAL_NAME",
     "ONEDRIVE_FOLDER_PATH", "AZURE_SEARCH_ENDPOINT", "AZURE_SEARCH_API_KEY",
     "AZURE_SEARCH_INDEX_NAME" >>

AllEnvVars == { requiredEnvVars[k] : k \in 1 .. Len(requiredEnvVars) }

\* The environments followed: the variables that are set and not empty.
StatusEnvs ==
  { AllEnvVars,
    AllEnvVars \ {"MS_CLIENT_SECRET"},
    AllEnvVars \ {"OPENAI_API_KEY", "AZURE_SEARCH_API_KEY"},
    {} }

StatusRequests == {1, 2}

\* How the token request of checkGraphToken may end.
GraphOutcomes == {"ok", "notOk", "noAccessToken", "threw"}
\* How the indexes request of checkAzureSearch may end.
SearchOutcomes == {"ok", "notOk", "badJson", "threw"}

\* validateEnv: the missing variables in the order of requiredEnvVars.
validateEnv(env) ==
  LET missing == SelectSeq(requiredEnvVars, LAMBDA key : key \notin env)
  IN  [threw |-> Len(missing) > 0, missing |-> missing]

\* checkGraphToken: ok only for an ok response that carries access_token.
checkGraphToken(o) ==
  IF o = "ok" THEN [ok |-> TRUE, error |-> ""]
  ELSE [ok |-> FALSE,
        error |-> CASE o = "notOk" -> "Graph token fetch failed"
                    [] o = "noAccessToken" -> "Graph token response missing access_token"
                    [] OTHER -> "Unknown error"]

\* checkAzureSearch: ok only for an ok response whose body parses.
checkAzureSearch(o) ==
  IF o = "ok" THEN [ok |-> TRUE, error |-> ""]
  ELSE [ok |-> FALSE,
        error |-> CASE o = "notOk" -> "Azure Search request failed"
                    [] OTHER -> "Unknown error"]

\* statusOk that is content with one of the two checks.
statusOkEither(graphCheck, searchCheck) == graphCheck.ok \/ searchCheck.ok

\* ok: graphCheck.ok && searchCheck.ok
statusOk(graphCheck, searchCheck) == graphCheck.ok /\ searchCheck.ok

\* The response returned when getConfig threw.
configFailedResponse(errors) ==
  [httpStatus |-> 200, ok |-> FALSE, graphTokenOk |-> FALSE, searchOk |-> FALSE,
   errors |-> errors]

\* The response returned after the two checks.
statusResponse(graphCheck, searchCheck, errors) ==
  [httpStatus |-> 200, ok |-> statusOk(graphCheck, searchCheck),
   graphTokenOk |-> graphCheck.ok, searchOk |-> searchCheck.ok, errors |-> errors]

\* The server process starts in some environment.
StatusBoot(env) ==
  /\ status.pc = "idle"
  /\ status' = [pc |-> "up", env |-> env, cachedConfig |-> FALSE,
                reqs |-> [r \in StatusRequests |-> [pc |-> "out"]]]

\* GET up to its first await: getConfig, the early return, or the token
\* request of checkGraphToken.
StatusGet(r) ==
  /\ status.pc = "up"
  /\ status.reqs[r].pc \in {"out", "answered"}
  /\ LET v == IF status.cachedConfig THEN [threw |-> FALSE, missing |-> <<>>]
              ELSE validateEnv(status.env)
     IN  IF v.threw
         THEN status' = [status EXCEPT !.reqs[r] =
                [pc |-> "answered", calls |-> <<>>,
                 response |-> configFailedResponse(
                               << <<"Config", "Missing required environment variables">> >>)]]
         ELSE status' = [status EXCEPT
                !.cachedConfig = TRUE,
                !.reqs[r] = [pc |-> "graph", calls |-> <<"token">>, errors |-> <<>>]]

\* The token request ends; the indexes request of checkAzureSearch is sent.
StatusGraphAnswer(r, o) ==
  /\ status.pc = "up"
  /\ status.reqs[r].pc = "graph"
  /\ LET graphCheck == checkGraphToken(o)
         h == status.reqs[r]
     IN  status' = [status EXCEPT !.reqs[r] =
           [pc |-> "search", calls |-> Append(h.calls, "indexes"), graphCheck |-> graphCheck,
            errors |-> IF graphCheck.ok THEN h.errors
                       ELSE Append(h.errors, <<"Graph token", graphCheck.error>>)]]

\* The indexes request ends; the response is returned.
StatusSearchAnswer(r, o) ==
  /\ status.pc = "up"
  /\ status.reqs[r].pc = "search"
  /\ LET searchCheck == checkAzureSearch(o)
         h == status.reqs[r]
         errors == IF searchCheck.ok THEN h.errors
                   ELSE Append(h.errors, <<"Azure Search", searchCheck.error>>)
     IN  status' = [status EXCEPT !.reqs[r] =
           [pc |-> "answered", calls |-> h.calls,
            response |-> statusResponse(h.graphCheck, searchCheck, errors)]]

NextStatus ==
  /\ \/ \E env \in StatusEnvs : StatusBoot(env)
     \/ \E r \in StatusRequests : StatusGet(r)
     \/ \E r \in StatusRequests, o \in GraphOutcomes : StatusGraphAnswer(r, o)
     \/ \E r \in StatusRequests, o \in SearchOutcomes : StatusSearchAnswer(r, o)
  /\ UNCHANGED <<pipelineVars, studyVars, chat, ingests, bearer>>

SpecStatus == Quiet /\ [][NextStatus]_vars

\* --------------------------------------------------- study: POST /api/chat
\* One server process answering chat requests, concurrently.  A request
\* body is unparseable, the JSON value null, or a JSON value whose `query`
\* member is undefined, a number or a string; a string is a sequence of
\* characters.  The index ranks `hits` documents for the query vector, best
\* first, and the search service returns the first `top` of them.
TopK == 5                      \* vectorSearch(queryEmbedding, 5)
MaxHits == 7                   \* documents the index may rank for a query

ChatRequests == {1, 2}

ChatStrings == { <<>>, <<" ">>, <<" ", " ">>, <<"q">>, <<" ", "q", " ">> }

ChatBodies ==
  { [kind |-> "unparseable"], [kind |-> "null"],
    [kind |-> "value", type |-> "undefined"],
    [kind |-> "value", type |-> "number"] }
  \cup { [kind |-> "value", type |-> "string", text |-> t] : t \in ChatStrings }

\* The ranked documents of the index: document k has the k-th best score.
rankedHits(hits) ==
  [k \in 1 .. hits |-> [chunk_id |-> k, file_name |-> k, score |-> MaxHits - k]]

\* String.prototype.trim on a sequence of characters.
trimString(t) ==
  LET inked == { k \in 1 .. Len(t) : t[k] # " " }
  IN  IF inked = {} THEN <<>>
      ELSE SubSeq(t, CHOOSE k \in inked : \A m \in inked : k <= m,
                     CHOOSE k \in inked : \A m \in inked : k >= m)

\* const { query } = await request.json(): throws for a body that is not
\* JSON and for null.
parseThrows(body) == body.kind \in {"unparseable", "null"}

\* queryRejected that lets a blank string pass.
queryRejectedUnlessBlank(body) ==
  \/ body.type # "string"
  \/ body.text = <<>>

\* !query || typeof query !== 'string' || query.trim().length === 0
\* (the number sent is not 0; '' is falsy)
queryRejected(body) ==
  \/ body.type = "undefined"
  \/ body.type = "string" /\ body.text = <<>>
  \/ body.type # "string"
  \/ Len(trimString(body.text)) = 0

\* vectorSearch: the service answers with the first topK ranked documents.
vectorSearch(hits, topK) == SubSeq(rankedHits(hits), 1, IF hits < topK THEN hits ELSE topK)

\* searchResults.map(result => ({ file_name, ..., chunk_id, score }))
sourcesOf(searchResults) ==
  [k \in 1 .. Len(searchResults) |->
     [chunk_id |-> searchResults[k].chunk_id, file_name |-> searchResults[k].file_name,
      score |-> searchResults[k].score]]

badRequest == [httpStatus |-> 400, error |-> "Query is required"]
serverError == [httpStatus |-> 500, error |-> "thrown"]
noDocuments == [httpStatus |-> 200, answer |-> "none found", sources |-> <<>>]
answered(searchResults) ==
  [httpStatus |-> 200, answer |-> "answer", sources |-> sourcesOf(searchResults)]

\* The module is loaded.
ChatBoot ==
  /\ chat.pc = "idle"
  /\ chat' = [pc |-> "up", reqs |-> [r \in ChatRequests |-> [pc |-> "out"]]]

\* POST up to the embedding request: the body is read and the query tested.
ChatPost(r, body) ==
  /\ chat.pc = "up"
  /\ chat.reqs[r].pc \in {"out", "done"}
  /\ chat' = [chat EXCEPT !.reqs[r] =
       IF parseThrows(body)
       THEN [pc |-> "done", body |-> body, calls |-> <<>>, response |-> serverError]
       ELSE IF queryRejected(body)
       THEN [pc |-> "done", body |-> body, calls |-> <<>>, response |-> badRequest]
       ELSE [pc |-> "embedding", body |-> body, calls |-> <<"embedding">>]]

\* getEmbedding returns and the search request is sent, or it throws.
ChatEmbedded(r, ok) ==
  /\ chat.pc = "up"
  /\ chat.reqs[r].pc = "embedding"
  /\ LET h == chat.reqs[r]
     IN  chat' = [chat EXCEPT !.reqs[r] =
           IF ok
           THEN [pc |-> "searching", body |-> h.body, calls |-> Append(h.calls, "search"),
                 top |-> TopK]
           ELSE [pc |-> "done", body |-> h.body, calls |-> h.calls, response |-> serverError]]

\* vectorSearch returns: without results the request is answered, with
\* results the chat model is called; or vectorSearch throws.
ChatSearched(r, ok, hits) ==
  /\ chat.pc = "up"
  /\ chat.reqs[r].pc = "searching"
  /\ LET h == chat.reqs[r]
         searchResults == vectorSearch(hits, h.top)
     IN  chat' = [chat EXCEPT !.reqs[r] =
           IF ~ok
           THEN [pc |-> "done", body |-> h.body, calls |-> h.calls, response |-> serverError]
           ELSE IF Len(searchResults) = 0
           THEN [pc |-> "done", body |-> h.body, calls |-> h.calls,
                 searchResults |-> searchResults, response |-> noDocuments]
           ELSE [pc |-> "chatting", body |-> h.body, calls |-> Append(h.calls, "chat"),
                 searchResults |-> searchResults]]

\* chatWithContext returns and the answer is sent with its sources, or it
\* throws.
ChatAnswered(r, ok) ==
  /\ chat.pc = "up"
  /\ chat.reqs[r].pc = "chatting"
  /\ LET h == chat.reqs[r]
     IN  chat' = [chat EXCEPT !.reqs[r] =
           [pc |-> "done", body |-> h.body, calls |-> h.calls,
            searchResults |-> h.searchResults,
            response |-> IF ok THEN answered(h.searchResults) ELSE serverError]]

NextChat ==
  /\ \/ ChatBoot
     \/ \E r \in ChatRequests, body \in ChatBodies : ChatPost(r, body)
     \/ \E r \in ChatRequests, ok \in BOOLEAN : ChatEmbedded(r, ok)
     \/ \E r \in ChatRequests, ok \in BOOLEAN, hits \in 0 .. MaxHits : ChatSearched(r, ok, hits)
     \/ \E r \in ChatRequests, ok \in BOOLEAN : ChatAnswered(r, ok)
  /\ UNCHANGED <<pipelineVars, studyVars, status, ingests, bearer>>

SpecChat == Quiet /\ [][NextChat]_vars

\* ------------------------------------------ study: ingestion from the page
\* The page's "Daten aktualisieren" button and the server's POST /api/ingest
\* together.  The page sends at most one request at a time (isIngesting) and
\* gives a request up after 10 minutes; the server spawns one child for each
\* request it receives and ends a child after 30 minutes.  Giving up a
\* request does not reach the child.  Time is counted in minutes and followed
\* in steps of TickMinutes; post k is the k-th request the page sent.
UiTimeoutMinutes == 10      \* AbortSignal.timeout(10 * 60 * 1000)
MaxPosts == 2               \* requests the page sends in one behaviour
MaxIngestClock == 45        \* minutes the study follows
TickMinutes == 10           \* minutes that pass in one step of the clock

Posts == 1 .. MaxPosts

NotSent == [state |-> "notSent"]

\* The children that run: spawned and not yet closed.
runningChildren(posts) == { k \in DOMAIN posts : posts[k].state = "running" }

\* The page is loaded and the server is up.
IngestsBoot ==
  /\ ingests.pc = "idle"
  /\ ingests' = [pc |-> "up", clock |-> 0, isIngesting |-> FALSE, sent |-> 0, sentAt |-> 0,
                 posts |-> [k \in Posts |-> NotSent]]

\* handleIngest up to its await: nothing while a request is under way, else
\* isIngesting is set and the request sent.
HandleIngest ==
  /\ ingests.pc = "up"
  /\ ~ingests.isIngesting
  /\ ingests.sent < MaxPosts
  /\ ingests' = [ingests EXCEPT
       !.isIngesting = TRUE,
       !.sent = @ + 1,
       !.sentAt = ingests.clock,
       !.posts[ingests.sent + 1] = [state |-> "sent"]]

\* POST on the server: the timer is armed and the child spawned, whatever
\* other children there are.
IngestPost(k) ==
  /\ ingests.pc = "up"
  /\ ingests.posts[k].state = "sent"
  /\ ingests' = [ingests EXCEPT
       !.posts[k] = [state |-> "running", spawnedAt |-> ingests.clock, killed |-> FALSE,
                     timer |-> "armed"]]

\* A timer is due: the page's 10 minutes or a child's 30 minutes are over.
uiTimerDue(g) ==
  g.isIngesting /\ g.clock >= g.sentAt + UiTimeoutMinutes

childTimerDue(g, k) ==
  /\ g.posts[k].state = "running"
  /\ g.posts[k].timer = "armed"
  /\ g.clock >= g.posts[k].spawnedAt + TimeoutMinutes

\* Time passes; a due timer does not let its time go by.
IngestsMinute ==
  /\ ingests.pc = "up"
  /\ ingests.clock < MaxIngestClock
  /\ ~uiTimerDue(ingests)
  /\ \A k \in Posts : ~childTimerDue(ingests, k)
  /\ ingests' = [ingests EXCEPT !.clock = @ + TickMinutes]

\* The page's timeout: fetch rejects with AbortError, the finally clause
\* clears isIngesting.  The server's child is not told.
UiAbort ==
  /\ ingests.pc = "up"
  /\ uiTimerDue(ingests)
  /\ ingests' = [ingests EXCEPT !.isIngesting = FALSE]

\* A child closes: its request is answered; the page, if it still waits for
\* this answer, clears isIngesting.
IngestClose(k) ==
  /\ ingests.pc = "up"
  /\ ingests.posts[k].state = "running"
  /\ ingests' = [ingests EXCEPT
       !.posts[k] = [state |-> "closed"],
       !.isIngesting = IF k = ingests.sent THEN FALSE ELSE @]

\* The server's timeout of a child: child.kill() and the failure answer;
\* the child runs on until it closes.
IngestTimeout(k) ==
  /\ ingests.pc = "up"
  /\ childTimerDue(ingests, k)
  /\ ingests' = [ingests EXCEPT
       !.posts[k].killed = TRUE,
       !.posts[k].timer = "fired",
       !.isIngesting = IF k = ingests.sent THEN FALSE ELSE @]

NextIngests ==
  /\ \/ IngestsBoot
     \/ HandleIngest
     \/ \E k \in Posts : IngestPost(k)
     \/ IngestsMinute
     \/ UiAbort
     \/ \E k \in Posts : IngestClose(k)
     \/ \E k \in Posts : IngestTimeout(k)
  /\ UNCHANGED <<pipelineVars, studyVars, status, chat, bearer>>

SpecIngests == Quiet /\ [][NextIngests]_vars

\* ------------------------------------------- study: the token of one run
\* The Graph requests of one run of main() and the clock.  main() calls
\* getGraphToken once and hands the string it got to every request of the
\* run: the drive lookup, the listing and the download of each file.  Time
\* passes while the run lists and while it extracts and embeds a file.  A
\* token is [issuedAt, expiresIn] as in the study of getGraphToken; times are
\* minutes, followed in steps of TickMinutes.
MaxBearerFiles == 3          \* files the run downloads
MaxBearerClock == 100        \* minutes the study follows

BearerLifetimes == {60, 90}  \* expires_in of the token response, in minutes

\* A Graph request sent with the run's accessToken.
graphRequest(kind, b) == [kind |-> kind, at |-> b.clock, token |-> b.accessToken]

\* main up to the drive lookup: the token is fetched and the first request
\* sent with it.
BearerStart(expiresIn) ==
  /\ bearer.pc = "idle"
  /\ LET b == [clock |-> 0, accessToken |-> [issuedAt |-> 0, expiresIn |-> expiresIn]]
     IN  bearer' = [pc |-> "drive", clock |-> 0, accessToken |-> b.accessToken, done |-> 0,
                    requests |-> << graphRequest("drive", b) >>]

\* listOneDriveFiles sends its listing request.
BearerList ==
  /\ bearer.pc = "drive"
  /\ bearer' = [bearer EXCEPT !.pc = "listing",
                              !.requests = Append(@, graphRequest("children", bearer))]

\* The second pass reaches the next file: downloadFileContent sends its
\* request.
BearerDownload ==
  /\ bearer.pc \in {"listing", "file"}
  /\ bearer.done < MaxBearerFiles
  /\ bearer' = [bearer EXCEPT !.pc = "file",
                              !.done = @ + 1,
                              !.requests = Append(@, graphRequest("content", bearer))]

\* Time passes: the listing goes on, or the file at hand is extracted,
\* chunked and embedded.
BearerWork ==
  /\ bearer.pc \in {"listing", "file"}
  /\ bearer.clock < MaxBearerClock
  /\ bearer' = [bearer EXCEPT !.clock = @ + TickMinutes]

\* The loop is through: no further Graph request is sent.
BearerEnd ==
  /\ bearer.pc \in {"listing", "file"}
  /\ bearer' = [bearer EXCEPT !.pc = "ended"]

NextBearer ==
  /\ \/ \E expiresIn \in BearerLifetimes : BearerStart(expiresIn)
     \/ BearerList
     \/ BearerDownload
     \/ BearerWork
     \/ BearerEnd
  /\ UNCHANGED <<pipelineVars, studyVars, status, chat, ingests>>

SpecBearer == Quiet /\ [][NextBearer]_vars

\* ------------------------------------------------------- claim vocabulary
\* The second pass has gone through every file and the guard has spoken.
LoopDone ==
  /\ pc \in {"upsert", "upsert_wait", "exited"}
  /\ Len(fileCategories) > 0
  /\ i > Len(fileCategories)

\* A stage before the per-file loop failed (token, drive, index query, listing).
EarlyFailure == failure \in {"auth", "index_query", "listing"}

\* No collaborator failed in the run at hand: every request was answered.
NoTransientFailure ==
  /\ failure \notin {"auth", "index_query", "listing", "upsert"}
  /\ \A f \in FileIds : outcome[f] \notin {"error_download", "error_embed"}

\* The folder is the same as when the previous run started.
TreeUnchanged == ~changedBefore

\* The folder is still as the run at hand saw it.
Settled == ~dirty

CategoryOf(f) ==
  LET ks == { k \in 1 .. Len(fileCategories) : fileCategories[k].file = f }
  IN  IF ks = {} THEN "none" ELSE fileCategories[CHOOSE k \in ks : TRUE].category

DocsOf(f) == { k \in 1 .. Len(allDocuments) : allDocuments[k].file_id = f }

Listed == { files[k] : k \in 1 .. Len(files) }

GuardrailOutcomes == {"oversize", "overlength", "too_many_chunks"}

AllDated == \A f \in folder : listedExt(remote[f].content.ext) => remote[f].mtime # 0

C2_Folder ==
  /\ folder = {"f1", "f2"}
  /\ remote["f1"].content.name = "txt50k"
  /\ remote["f2"].content.name = "sheet"
  /\ edits = 0

C2_EndToEnd ==
  (C2_Folder /\ pc = "exited" /\ NoTransientFailure /\ (run = 2 => prev.clean))
    => /\ run = 1 => /\ counts.newCount = 1
                     /\ counts.skippedXlsxCount = 1
                     /\ Len(allDocuments) = Len(ChunkTable["txt50k"])
                     /\ Cardinality(DOMAIN index) = Len(ChunkTable["txt50k"])
       /\ run = 2 => /\ counts.skippedUnchangedCount = 1
                     /\ counts.skippedXlsxCount = 1
                     /\ upsertCalls = 0

\* C3 (unchanged files are left alone): a file categorized as unchanged is
\* never downloaded, never given to the extractor, causes no embedding call
\* and has no document among the documents to upsert.
C3_UnchangedUntouched ==
  \A f \in FileIds :
    CategoryOf(f) = "unchanged"
      => /\ f \notin downloaded
         /\ f \notin extracted
         /\ embedCalls[f] = 0
         /\ DocsOf(f) = {}

\* C3 witness: the loop has gone past an unchanged file while another file
\* of the same run was downloaded.
C3_Witness ==
  \E f \in FileIds, g \in FileIds :
    /\ outcome[f] = "unchanged"
    /\ g \in downloaded

C5_PerFileAtomicity ==
  (LoopDone /\ Settled) =>
    \A f \in Listed :
      \/ DocsOf(f) = {}
      \/ Cardinality(DocsOf(f)) = Len(ChunkTable[remote[f].content.name])

\* C6 (per-file error isolation): a step of the loop in which the file raises
\* an error goes on to the next file, does not end the run and keeps the
\* documents made so far; a run that made documents fails only when an
\* upsert fails, and when it ends successfully all of them are in the index.
C6_ErrorStep ==
  /\ pc = "process"
  /\ i <= Len(fileCategories)
  /\ i' = i + 1
  /\ outcome'[fileCategories[i].file] \in ErrorOutcomes

C6_ErrorIsolation ==
  /\ [][ C6_ErrorStep =>
           /\ pc' = "process"
           /\ exitCode' = -1
           /\ SubSeq(allDocuments', 1, Len(allDocuments)) = allDocuments ]_vars
  /\ []( (pc = "exited" /\ Len(allDocuments) > 0)
           => /\ exitCode = 1 => failure = "upsert"
              /\ exitCode = 0 =>
                   \A k \in 1 .. Len(allDocuments) :
                      /\ docId(allDocuments[k]) \in DOMAIN index
                      /\ index[docId(allDocuments[k])] = allDocuments[k] )

\* C6 witness: the first file raised an error, the second was processed, and
\* the run ended successfully with the second file's documents in the index.
C6_Witness ==
  /\ pc = "exited"
  /\ exitCode = 0
  /\ outcome["f1"] \in ErrorOutcomes
  /\ outcome["f2"] = "ok"
  /\ \E d \in DOMAIN index : index[d].file_id = "f2"

\* C7 (when a run fails): a run ends with exit code 1 only when a stage before
\* the loop or an upsert failed, or when no document was made although some
\* file went through the pipeline without being skipped; and a run that
\* classified at least one file and skipped every file for an expected
\* reason ends with exit code 0.
C7_ExpectedSkips == {"xlsx", "unchanged"} \cup GuardrailOutcomes

C7_FailureOnlyWhen ==
  /\ (pc = "exited" /\ exitCode = 1)
       => \/ EarlyFailure
          \/ failure = "upsert"
          \/ /\ Len(allDocuments) = 0
             /\ \E f \in Listed : outcome[f] \in ErrorOutcomes \cup {"ok"}
  /\ (pc = "exited" /\ LoopDone /\ \A f \in Listed : outcome[f] \in C7_ExpectedSkips)
       => exitCode = 0

\* C8 (empty text): a file whose extraction succeeds with empty text yields
\* no chunk, no embedding call and no document, and a run whose only new or
\* updated file is such a file does not end with exit code 1.
C8_EmptyTextFile(f) ==
  /\ CategoryOf(f) \in {"new", "updated"}
  /\ outcome[f] = "ok"
  /\ remote[f].content.textLen = 0

C8_EmptyTextNotFailure ==
  \A f \in FileIds :
    (pc = "exited" /\ LoopDone /\ Settled /\ C8_EmptyTextFile(f)
       /\ \A g \in Listed \ {f} : CategoryOf(g) \notin {"new", "updated"})
      => /\ DocsOf(f) = {}
         /\ embedCalls[f] = 0
         /\ exitCode = 0

\* C9 (byte-size boundary): a new or updated file of exactly
\* MAX_FILE_SIZE_BYTES bytes is not skipped as oversize and, once downloaded,
\* is given to the extractor; a file one byte larger whose size is listed is
\* skipped as oversize, which adds one to skippedCount, is no error, and
\* leaves newCount and updatedCount as they were before the file.
C9_Step(bytes) ==
  /\ pc = "process"
  /\ i <= Len(fileCategories)
  /\ i' = i + 1
  /\ fileCategories[i].category \in {"new", "updated"}
  /\ remote[fileCategories[i].file].content.bytes = bytes
  /\ remote[fileCategories[i].file].content.sizeListed

C9_SizeBoundary ==
  [][ LET f == fileCategories[i].file
      IN  /\ C9_Step(MAX_FILE_SIZE_BYTES)
               => /\ outcome'[f] # "oversize"
                  /\ outcome'[f] # "error_download" => f \in extracted'
          /\ C9_Step(MAX_FILE_SIZE_BYTES + 1)
               => /\ outcome'[f] = "oversize"
                  /\ f \notin downloaded'
                  /\ counts'.skippedCount = counts.skippedCount + 1
                  /\ counts'.newCount = counts.newCount
                  /\ counts'.updatedCount = counts.updatedCount ]_vars

\* C10 (guardrails are outcomes, not errors): a file stopped by one of the
\* three guardrails adds one to skippedCount and nothing to newCount or
\* updatedCount, and a run in which every file that is not unchanged was
\* stopped by a guardrail ends with exit code 0.
C10_GuardrailStep ==
  /\ pc = "process"
  /\ i <= Len(fileCategories)
  /\ i' = i + 1
  /\ outcome'[fileCategories[i].file] \in GuardrailOutcomes

C10_GuardrailsAreSkips ==
  /\ [][ C10_GuardrailStep =>
           /\ counts'.skippedCount = counts.skippedCount + 1
           /\ counts'.newCount = counts.newCount
           /\ counts'.updatedCount = counts.updatedCount ]_vars
  /\ []( (pc = "exited" /\ LoopDone
            /\ (\A f \in Listed : outcome[f] \in GuardrailOutcomes \cup {"unchanged"})
            /\ (\E g \in Listed : outcome[g] \in GuardrailOutcomes))
           => exitCode = 0 )

\* C11 (guardrails come before what they protect): a loop step over a file
\* whose listed size exceeds MAX_FILE_SIZE_BYTES does not download it; a step
\* over a file whose extracted text is longer than MAX_TEXT_LENGTH neither
\* chunks it nor calls the embedding service for it; a step over a file
\* whose text gives more than MAX_CHUNKS chunks calls the embedding service
\* for none of them.
C11_Step ==
  /\ pc = "process"
  /\ i <= Len(fileCategories)
  /\ i' = i + 1

C11_GuardrailsFirst ==
  [][ C11_Step =>
        LET f == fileCategories[i].file
            c == remote[f].content
        IN  /\ (c.sizeListed /\ c.bytes > MAX_FILE_SIZE_BYTES) => f \notin downloaded'
            /\ (f \in extracted' /\ c.textLen > MAX_TEXT_LENGTH)
                 => (f \notin chunked' /\ embedCalls'[f] = 0)
            /\ (f \in chunked' /\ Len(ChunkTable[c.name]) > MAX_CHUNKS)
                 => embedCalls'[f] = 0 ]_vars

\* C11 witness: the loop has gone past a file that was downloaded and
\* extracted, whose text is too long, and that was neither chunked nor
\* embedded.
C11_Witness ==
  /\ pc = "process"
  /\ outcome["f1"] = "overlength"
  /\ "f1" \in extracted
  /\ "f1" \notin chunked
  /\ embedCalls["f1"] = 0

\* C12 (batching): the batches sent are consecutive pieces of allDocuments in
\* its order, every batch but the last holds batchSize documents and no
\* batch is empty or larger, there is one upsert request per batch, a batch
\* is sent only when no request is awaiting its response, and a run that
\* ends successfully after upserting has sent every document exactly once.
RECURSIVE C12_Flatten(_)
C12_Flatten(batches) ==
  IF batches = << >> THEN << >>
  ELSE C12_Flatten(SubSeq(batches, 1, Len(batches) - 1)) \o batches[Len(batches)]

C12_Batching ==
  /\ Len(sent) = upsertCalls
  /\ inFlight \in {0, 1}
  /\ pc = "upsert" => inFlight = 0
  /\ \A b \in 1 .. Len(sent) :
       /\ Len(sent[b]) >= 1
       /\ Len(sent[b]) <= batchSize
       /\ b < Len(sent) => Len(sent[b]) = batchSize
  /\ LET flat == C12_Flatten(sent)
     IN  /\ Len(flat) <= Len(allDocuments)
         /\ flat = SubSeq(allDocuments, 1, Len(flat))
         /\ (pc = "exited" /\ exitCode = 0 /\ Len(allDocuments) > 0) => flat = allDocuments

\* C12 witness: a run has ended successfully after sending two batches, the
\* second one smaller than the first.
C12_Witness ==
  /\ pc = "exited"
  /\ exitCode = 0
  /\ Len(sent) = 2
  /\ Len(sent[1]) = batchSize
  /\ Len(sent[2]) < batchSize
  /\ Len(allDocuments) = Len(sent[1]) + Len(sent[2])

\* C13 (a failed upsert): when the upsert of batch k is answered with a
\* non-success status the run ends with exit code 1, batch k is the last
\* batch sent, and the index is what the upserts of batches 1 .. k-1 made of
\* the index the run started with: their documents stay committed.
RECURSIVE C13_Committed(_, _, _)
C13_Committed(idx, batches, n) ==
  IF n = 0 THEN idx
  ELSE upsert(C13_Committed(idx, batches, n - 1), batches[n])

C13_UpsertFailure ==
  (pc = "exited" /\ failure = "upsert")
    => /\ exitCode = 1
       /\ upsertCalls = Len(sent)
       /\ batchPos = (Len(sent) - 1) * batchSize + 1
       /\ index = C13_Committed(prev.index, sent, Len(sent) - 1)
       /\ \A b \in 1 .. Len(sent) - 1 : \A k \in 1 .. Len(sent[b]) :
            /\ docId(sent[b][k]) \in DOMAIN index
            /\ index[docId(sent[b][k])] = sent[b][k]

\* C13 witness: the second batch of a run over an empty index failed; the
\* documents of the first batch are in the index.
C13_Witness ==
  /\ pc = "exited"
  /\ failure = "upsert"
  /\ Len(sent) = 2
  /\ prev.index = << >>
  /\ Cardinality(DOMAIN index) = batchSize

\* C14 (document ids): every document in the index sits under the id
\* fileId_chunkIndex and carries chunk_id fileId_chunk_chunkIndex, both made
\* from its normalized file id and its chunk index alone; two documents with
\* the same file id and chunk index are one document, and the index holds
\* one document for every <<file id, chunk index>> pair upserted, never two
\* and never one for two pairs.
C14_DocumentIds ==
  /\ \A k \in DOMAIN idIndex :
       /\ k = idIndex[k].file_id \o <<"_">> \o decimal(idIndex[k].chunk_offset)
       /\ idIndex[k].chunk_id
            = idIndex[k].file_id \o <<"_", "c", "h", "u", "n", "k", "_">>
                \o decimal(idIndex[k].chunk_offset)
       /\ <<idIndex[k].file_id, idIndex[k].chunk_offset>> \in idWritten
  /\ \A k \in DOMAIN idIndex, j \in DOMAIN idIndex :
       (idIndex[k].file_id = idIndex[j].file_id
          /\ idIndex[k].chunk_offset = idIndex[j].chunk_offset) => k = j
  /\ Cardinality(DOMAIN idIndex) = Cardinality(idWritten)

\* C14 witness: the index holds the documents of chunk 0 of file "a1" and of
\* chunk 10 of file "a", whose ids differ only by the separator's place.
C14_Witness ==
  /\ idWritten = { <<(<<"a", "1">>), 0>>, <<(<<"a">>), 10>> }
  /\ Cardinality(DOMAIN idIndex) = 2

\* C15 (convergence): when a run that classified a file as updated has
\* processed it without error and ended successfully, the documents it made
\* for the file are one per chunk of the file's new content, numbered
\* 0 .. n-1; the index holds exactly these under the file's ids 0 .. n-1,
\* stamped with the new modification time; and every document the index held
\* before the run under a chunk index >= n is still there unchanged.  No run
\* ever removes a document from the index.
C15_Convergence ==
  /\ DOMAIN prev.index \subseteq DOMAIN index
  /\ (pc = "exited" /\ exitCode = 0 /\ Settled) =>
       \A f \in Listed :
         (CategoryOf(f) = "updated" /\ outcome[f] = "ok") =>
           LET c  == remote[f].content
               ws == ChunkTable[c.name]
               n  == Len(ws)
           IN  /\ Cardinality(DocsOf(f)) = n
               /\ { allDocuments[k].chunk_offset : k \in DocsOf(f) } = 0 .. n - 1
               /\ \A j \in 0 .. n - 1 :
                    /\ <<f, j>> \in DOMAIN index
                    /\ index[<<f, j>>].content = <<c.name, ws[j + 1].start, ws[j + 1].end>>
                    /\ index[<<f, j>>].updated_at = remote[f].mtime
                    /\ \E k \in DocsOf(f) : allDocuments[k] = index[<<f, j>>]
               /\ \A d \in DOMAIN prev.index :
                    (prev.index[d].file_id = f /\ prev.index[d].chunk_offset >= n)
                      => index[d] = prev.index[d]

\* C15 witness: a file indexed with three chunks was replaced by a version
\* with two; the run that found it updated has ended successfully, and the
\* index still holds the third chunk of the old version.
C15_Witness ==
  /\ pc = "exited" /\ exitCode = 0 /\ Settled
  /\ CategoryOf("f1") = "updated"
  /\ outcome["f1"] = "ok"
  /\ Len(ChunkTable[remote["f1"].content.name]) = 2
  /\ <<"f1", 2>> \in DOMAIN index
  /\ index[<<"f1", 2>>].content[1] # remote["f1"].content.name
  /\ index[<<"f1", 0>>].content[1] = remote["f1"].content.name

\* C16 (a failed listing): a run whose listing failed (folder not found, or
\* a listing request answered with a non-success status) has ended with exit
\* code 1, has listed and processed no file, has sent no upsert request and
\* has left the index as it found it.
C16_ListingFailure ==
  failure = "listing"
    => /\ pc = "exited"
       /\ exitCode = 1
       /\ files = << >>
       /\ downloaded = {}
       /\ upsertCalls = 0
       /\ sent = << >>
       /\ index = prev.index

\* C16 witness: the listing of a second run failed while the index held the
\* documents of the first run.
C16_Witness ==
  /\ failure = "listing"
  /\ run = 2
  /\ DOMAIN index # {}

\* C17 as claimed (classifying never fails the run): a run whose index query
\* was answered with a non-ok status does not end because of it; it goes on
\* to list and classify, and classifies every supported file as new.
C17_ClassifyingNeverFails ==
  queryFailed
    => /\ failure # "index_query"
       /\ \A k \in 1 .. Len(fileCategories) : fileCategories[k].category \in {"new", "xlsx"}

\* C17 as amended: the first pass itself never fails the run, it gives every
\* listed file a category and goes on to the second pass; but a run whose
\* index query was answered with a non-ok status ends with exit code 1
\* before any file is listed or classified.
C17_ClassifyStep ==
  /\ pc = "categorize"
  /\ pc' # "categorize"

C17_OnlyTheQueryFails ==
  /\ [][ C17_ClassifyStep =>
           /\ pc' = "process"
           /\ exitCode' = -1
           /\ Len(fileCategories') = Len(files)
           /\ \A k \in 1 .. Len(files) :
                fileCategories'[k].category \in {"new", "updated", "unchanged", "xlsx"} ]_vars
  /\ [](queryFailed => (pc = "exited" /\ exitCode = 1 /\ files = << >> /\ fileCategories = << >>))

\* C17 witness: the index query of a second run failed while the index held
\* the documents of the first run, whose files had been classified.
C17_Witness ==
  /\ queryFailed
  /\ run = 2
  /\ DOMAIN index # {}
  /\ fileCategories = << >>

\* C18 (a failed index query is run-fatal): a run whose index query was
\* answered with a non-ok status has ended with exit code 1 and has neither
\* listed, downloaded, extracted nor embedded any file, has sent no upsert
\* request and has left the index as it found it.
C18_IndexQueryFatal ==
  queryFailed
    => /\ pc = "exited"
       /\ exitCode = 1
       /\ failure = "index_query"
       /\ \A f \in FileIds : outcome[f] = "none" /\ embedCalls[f] = 0
       /\ downloaded = {} /\ extracted = {}
       /\ allDocuments = << >>
       /\ upsertCalls = 0
       /\ index = prev.index

\* C18 witness: the index query of a first run failed although the folder
\* held a file the run would have processed.
C18_Witness ==
  /\ queryFailed
  /\ run = 1
  /\ exitCode = 1
  /\ "f1" \in folder
  /\ remote["f1"].content.ext = "pdf"

\* C19 (getIndexedFiles): when the call returns, the map holds exactly the
\* file ids that occur on a document of the tenant, each with the maximum
\* updated_at over the file's documents; the requests were made with skip
\* 0, top, 2 * top, ... and the last of them was the first whose page was
\* empty or held fewer than top documents, so every document was on a page
\* that was read.
C19_Done == query.pc = "done"

C19_GetIndexedFiles ==
  C19_Done =>
    LET q    == query.in
        docs == [ k \in 1 .. q.n |-> docAt(q, k) ]
        ids  == { docs[k].file_id : k \in 1 .. q.n } \ {0}
    IN  /\ DOMAIN query.map = ids
        /\ \A f \in ids :
             query.map[f] = Max({ docs[k].updated_at :
                                    k \in { j \in 1 .. q.n : docs[j].file_id = f } })
        /\ query.requests = (q.n \div top) + 1
        /\ query.skip = (query.requests - 1) * top
        /\ Len(query.results) = q.n - query.skip
        /\ Len(query.results) < top

\* C19 witness: a call over 2000 documents has returned after two full pages
\* and an empty third one, with a non-empty map.
C19_Witness ==
  /\ C19_Done
  /\ query.in.n = 2 * top
  /\ query.requests = 3
  /\ Len(query.results) = 0
  /\ DOMAIN query.map # {}

\* C20 (path resolution): the ingestion resolves the configured path segment
\* by segment from the root, each segment naming a folder child of the folder
\* reached so far: a path of one segment resolves to the root's folder child
\* of that name, a path of two segments a/b to the folder child b of the
\* root's folder child a, and the resolution fails when a segment names no
\* folder child.
C20_Slash(path) == IF path[1] = "/" THEN path ELSE <<"/">> \o path

C20_FolderChild(drive, id, name) ==
  { x \in drive : x.parent = id /\ x.name = name /\ x.folder }

C20_PathResolution ==
  (walk.pc = "done" /\ walk.by = "script") =>
    \A a \in PathNames :
      /\ C20_Slash(walk.path) = <<"/">> \o a =>
           IF C20_FolderChild(walk.drive, rootId, a) = {}
           THEN walk.result = "not_found"
           ELSE \E x \in C20_FolderChild(walk.drive, rootId, a) : walk.result = x.id
      /\ \A b \in PathNames :
           C20_Slash(walk.path) = <<"/">> \o a \o <<"/">> \o b =>
             IF \E x \in C20_FolderChild(walk.drive, rootId, a) :
                  C20_FolderChild(walk.drive, x.id, b) # {}
             THEN \E x \in C20_FolderChild(walk.drive, rootId, a) :
                    \E y \in C20_FolderChild(walk.drive, x.id, b) : walk.result = y.id
             ELSE walk.result = "not_found"

\* C21 (paginated lookup): whenever the root holds a folder child of the
\* requested name, the lookup of the configured folder finds it, on whatever
\* page of the root's children listing it is served; the lookup reports
\* "folder not found" only when there is no such child.
C21_Requested(in) ==
  { x \in in.drive : x.parent = rootId /\ x.name = in.folderName /\ x.folder }

C21_LookupAcrossPages ==
  (lister.pc # "idle" /\ C21_Requested(lister.in) # {}) => lister.error # "not_found"

\* C22 (recursive listing): a finished recursive listing holds every file
\* below the resolved folder exactly once, at any depth and from any page,
\* and holds no folder.
RECURSIVE C22_Below(_, _, _)
C22_Below(drive, x, folderId) ==
  /\ x.parent # rootId
  /\ \/ x.parent = folderId
     \/ \E y \in drive : y.id = x.parent /\ C22_Below(drive, y, folderId)

C22_Occurrences(x) ==
  { k \in 1 .. Len(lister.result) :
      lister.result[k].id = servedId(x.id, lister.in.itemComposite) }

C22_RecursiveListing ==
  (lister.pc = "done" /\ lister.in.recursive) =>
    /\ \A x \in lister.in.drive :
         \A f \in C21_Requested(lister.in) :
           (~x.folder /\ C22_Below(lister.in.drive, x, f.id)) =>
             Cardinality(C22_Occurrences(x)) = 1
    /\ \A k \in 1 .. Len(lister.result) : ~lister.result[k].folder

\* C23 (bare ids in URLs): every id put into the URL of a children request
\* or of a content request is a bare item id, with no "driveId!" in front,
\* the id of the drive's root included.
C23_Bare(id) == \A k \in 1 .. Len(id) : id[k] # "!"

C23_BareIdsInUrls ==
  lister.pc # "idle" => \A k \in 1 .. Len(lister.requests) : C23_Bare(lister.requests[k])

\* C24 (window count): when no window is cut at a '.' or a newline, the
\* number of windows chunkText goes through on a text of length L with
\* target size T and overlap O < T is ceil((L - O) / (T - O)).
C24_Uncut ==
  /\ chunker.pc = "done"
  /\ chunker.in.overlap < chunker.in.chunkSize
  /\ \A k \in 1 .. Len(chunker.windows) : ~chunker.windows[k].cut

C24_CeilDiv(a, b) == (a + b - 1) \div b

C24_WindowCount ==
  C24_Uncut =>
    Len(chunker.windows) = C24_CeilDiv(chunker.in.text.len - chunker.in.overlap,
                                       chunker.in.chunkSize - chunker.in.overlap)

\* C24 as amended: the windows start at 0, T - O, 2(T - O), ... as long as the
\* start lies inside the text, so their number is ceil(L / (T - O)); the last
\* of them may hold nothing but the overlap of the one before.
C24_WindowCountFromLength ==
  C24_Uncut =>
    /\ Len(chunker.windows) = C24_CeilDiv(chunker.in.text.len,
                                          chunker.in.chunkSize - chunker.in.overlap)
    /\ \A k \in 1 .. Len(chunker.windows) :
         chunker.windows[k].start = (k - 1) * (chunker.in.chunkSize - chunker.in.overlap)

C24_Witness ==
  /\ C24_Uncut
  /\ chunker.in.text.len = 1000
  /\ chunker.in.chunkSize = ChunkSize /\ chunker.in.overlap = Overlap
  /\ Len(chunker.windows) = 2
  /\ chunker.windows[2].piece = [from |-> 800, to |-> 1000]

C26_MinimumLength ==
  chunker.pc # "idle" =>
    /\ \A k \in 1 .. Len(chunker.chunks) :
         chunker.chunks[k].to - chunker.chunks[k].from >= MinChunkLen
    /\ chunker.in.text.len < MinChunkLen => chunker.chunks = << >>

C26_Witness ==
  /\ chunker.pc = "done"
  /\ \E k \in 1 .. Len(chunker.windows) :
       /\ ~chunker.windows[k].kept
       /\ chunker.windows[k].piece.to - chunker.windows[k].piece.from >= MinChunkLen
  /\ chunker.chunks # << >>

\* C27 (overlap): window i+1 starts at end(i) - overlap, so for consecutive
\* windows that are not cut at a '.' or a newline the last `overlap`
\* characters of chunk i are the first `overlap` characters of chunk i+1, and
\* the chunks stitched over their overlaps give back the text.
C27_Tail(c, n) == [from |-> c.to - n, to |-> c.to]
C27_Head(c, n) == [from |-> c.from, to |-> c.from + n]
C27_Size(c) == c.to - c.from

C27_Covered == UNION { chunker.chunks[k].from .. chunker.chunks[k].to - 1 :
                         k \in 1 .. Len(chunker.chunks) }

C27_Overlap ==
  chunker.pc = "done" =>
    LET w == chunker.windows
        o == chunker.in.overlap
    IN  /\ \A k \in 1 .. Len(w) - 1 :
             (~w[k].cut /\ ~w[k + 1].cut /\ w[k].kept /\ w[k + 1].kept) =>
               /\ w[k + 1].start = w[k].end - o
               /\ C27_Size(w[k].chunk) >= o /\ C27_Size(w[k + 1].chunk) >= o
               /\ C27_Tail(w[k].chunk, o) = C27_Head(w[k + 1].chunk, o)
        /\ (\A k \in 1 .. Len(w) : ~w[k].cut) =>
             C27_Covered = 0 .. chunker.in.text.len - 1

\* C27 as amended: the next window always starts at end - overlap; where
\* neither of two consecutive kept chunks lost whitespace to trimming and
\* the first of their windows ends inside the text, the second chunk starts
\* `overlap` characters before the end of the first; and with an overlap
\* of at least the minimum chunk length, a text of at least that length
\* with no whitespace at a window's edge is covered by its chunks.
C27_Untrimmed(win) == win.chunk = win.piece

C27_OverlapUntrimmed ==
  chunker.pc = "done" =>
    LET w == chunker.windows
        o == chunker.in.overlap
    IN  /\ \A k \in 1 .. Len(w) - 1 : w[k + 1].start = w[k].end - o
        /\ \A k \in 1 .. Len(w) - 1 :
             (/\ w[k].kept /\ w[k + 1].kept
              /\ C27_Untrimmed(w[k]) /\ C27_Untrimmed(w[k + 1])
              /\ w[k].end <= chunker.in.text.len) =>
               /\ w[k + 1].chunk.from = w[k].chunk.to - o
               /\ w[k + 1].chunk.to >= w[k].chunk.to
        /\ (/\ \A k \in 1 .. Len(w) : C27_Untrimmed(w[k])
            /\ o >= MinChunkLen
            /\ chunker.in.text.len >= MinChunkLen) =>
             C27_Covered = 0 .. chunker.in.text.len - 1

C27_Witness ==
  /\ chunker.pc = "done"
  /\ chunker.in.text.len = 1600
  /\ chunker.in.chunkSize = ChunkSize /\ chunker.in.overlap = Overlap
  /\ Len(chunker.chunks) = 2
  /\ chunker.chunks[2].from = chunker.chunks[1].to - Overlap
  /\ C27_Covered = 0 .. 1599

\* C28 (ingest timeout): a POST /api/ingest request is always answered; when
\* the child has not closed within 30 minutes it is sent the kill signal and
\* the request is answered with the timeout failure: success false, the
\* timeout message, HTTP status 500.
C28_TimedOut == route.pc # "idle" /\ route.timer = "fired"

C28_IngestTimeout ==
  /\ [](C28_TimedOut => (route.killed /\ route.response = timeoutResponse
                          /\ ~route.response.success /\ route.response.status = 500))
  /\ (route.pc = "waiting") ~> (route.pc = "answered")

C28_Witness ==
  /\ route.pc = "answered"
  /\ route.timer = "fired"
  /\ route.child = "running"
  /\ route.killed
  /\ route.response.kind = "timeout"

\* C30 (token cache margin): getGraphToken hands out the cached token only
\* while that token is valid for more than 5 more minutes; at any other time
\* it exchanges for a new token, which replaces the cache; an exchange that
\* fails raises an error and leaves the cache as it was.
C30_Step(c) ==
  LET old == cache.callers[c]
      new == cache'.callers[c]
  IN  /\ (old.pc # "fetching" /\ new # old /\ new.pc = "returned") =>
            /\ new.fromCache /\ new.token = cache.cached.token
            /\ validityLeft(new.token, cache.clock) > MarginMinutes
            /\ cache'.cached = cache.cached
      /\ (old.pc # "fetching" /\ new # old
            /\ (cache.cached = NoToken
                  \/ validityLeft(cache.cached.token, cache.clock) <= MarginMinutes)) =>
            new.pc = "fetching"
      /\ (old.pc = "fetching" /\ new.pc = "returned") =>
            /\ ~new.fromCache
            /\ cache'.cached.token = new.token
            /\ new.token.issuedAt = cache.clock
      /\ (old.pc = "fetching" /\ new.pc = "threw") => cache'.cached = cache.cached

C30_TokenCacheMargin ==
  [][cache.pc = "loaded" => \A c \in Callers : C30_Step(c)]_vars

C30_Witness ==
  /\ cache.pc = "loaded"
  /\ cache.callers[1].pc = "returned" /\ cache.callers[1].fromCache
  /\ validityLeft(cache.callers[1].token, cache.clock) > MarginMinutes
  /\ cache.callers[2].pc = "threw"
  /\ cache.cached # NoToken
  /\ cache.clock > 0

\* C29 (concurrent runs): two runs interleaved in any way against the same
\* index and the same unchanged folder may both take a file for new or
\* updated, but, upserts replacing by id, the documents in the index once
\* both have ended without error are those one run alone would have left:
\* none twice, none missing.  prev.index is the index the earlier of the two
\* runs started from.
C29_SingleRun == upsert(prev.index, otherDocuments(getIndexedFiles(prev.index), 0))

C29_SameDocument(indexed, d) ==
  /\ indexed.file_id = d.file_id
  /\ indexed.chunk_offset = d.chunk_offset
  /\ indexed.content = d.content
  /\ remote[d.file_id].mtime # 0 => indexed.updated_at = d.updated_at

C29_BothEnded == pair.pc = "exited" /\ RunClean

C29_Overlapped == pair.startedRun = run /\ pair.startedAt # "exited"

C29_ConcurrentRuns ==
  (C29_BothEnded /\ C29_Overlapped) =>
    /\ DOMAIN index = DOMAIN C29_SingleRun
    /\ \A d \in DOMAIN C29_SingleRun : C29_SameDocument(index[d], C29_SingleRun[d])

\* Both runs took the first file for new, embedded it and upserted it.
C29_Witness ==
  /\ C29_BothEnded /\ C29_Overlapped
  /\ run = 1
  /\ outcome["f1"] = "ok" /\ embedCalls["f1"] > 0
  /\ \E k \in 1 .. Len(pair.documents) : pair.documents[k].file_id = "f1"
  /\ upsertCalls = 2 /\ pair.sent = 2
  /\ Cardinality(DOMAIN index) > batchSize

\* -------------------------------------------------------------------- C31
\* C31: every response of GET /api/status has HTTP status 200, its ok is
\* the conjunction of graphTokenOk and searchOk, and ok is true exactly when
\* the errors list is empty; when the configuration does not validate, the
\* response has ok, graphTokenOk and searchOk all false and neither the token
\* request nor the indexes request was sent.
C31_Answered(r) == status.pc = "up" /\ status.reqs[r].pc = "answered"

C31_StatusContract ==
  status.pc = "up" =>
    \A r \in StatusRequests :
      /\ C31_Answered(r) =>
           LET a == status.reqs[r].response
           IN  /\ a.httpStatus = 200
               /\ a.ok = (a.graphTokenOk /\ a.searchOk)
               /\ a.ok = (a.errors = <<>>)
               /\ validateEnv(status.env).threw =>
                    /\ ~a.ok /\ ~a.graphTokenOk /\ ~a.searchOk
                    /\ status.reqs[r].calls = <<>>
               /\ ~validateEnv(status.env).threw =>
                    status.reqs[r].calls = <<"token", "indexes">>
      /\ validateEnv(status.env).threw => status.reqs[r].pc \in {"out", "answered"}

\* One request answered with everything in order while the other was
\* answered with a failed token check and a passed search check.
C31_Witness ==
  /\ C31_Answered(1) /\ C31_Answered(2)
  /\ status.reqs[1].response.ok
  /\ ~status.reqs[2].response.graphTokenOk
  /\ status.reqs[2].response.searchOk
  /\ status.reqs[2].response.errors = << <<"Graph token", "Graph token fetch failed">> >>

\* -------------------------------------------------------------------- C32
\* C32: a POST /api/ingest request is answered exactly once, whatever the
\* order of the child's close event, its error event and the timeout: as
\* soon as one of the three has happened the request has its response, a
\* response once given is never replaced, the response is success=true if
\* and only if the child closed with exit code 0 before the timeout fired,
\* and every other response is a failure with HTTP status 500.
C32_Happened(r) == r.child # "running" \/ r.timer = "fired"

C32_ClosedWellInTime(r) == r.child = "closed" /\ r.closeCode = "0" /\ r.timer # "fired"

C32_AnsweredRight(r) ==
  /\ C32_Happened(r) <=> r.response # NoResponse
  /\ r.response # NoResponse =>
       /\ r.response.success <=> C32_ClosedWellInTime(r)
       /\ ~r.response.success => r.response.status = 500

C32_ResolvedOnce ==
  [][ /\ route'.pc # "idle" => C32_AnsweredRight(route')
      /\ (route.pc # "idle" /\ route.response # NoResponse) =>
           route'.response = route.response ]_vars

\* The timeout fired and answered the request, and the killed child closed
\* afterwards: the close handler's answer came second and was not taken.
C32_Witness ==
  /\ route.pc = "answered"
  /\ route.timer = "fired"
  /\ route.child = "closed"
  /\ route.closeCode = "0"
  /\ route.response = timeoutResponse

\* -------------------------------------------------------------------- C33
\* C33: token refreshes are serialized: when several callers of
\* getGraphToken find the cache empty or expired, at most one token request
\* is in flight, and a caller that arrives during it sends none of its own.
C33_InFlight == { c \in Callers : cache.callers[c].pc = "fetching" }

C33_SerializedRefresh ==
  cache.pc = "loaded" =>
    /\ Cardinality(C33_InFlight) <= 1
    /\ cache.exchanges <= 1

\* -------------------------------------------------------------------- C34
\* C34: POST /api/chat answers a missing, non-string or blank query with
\* HTTP 400 before any embedding or search call; otherwise exactly one
\* embedding call and one top-5 vector search are made, the chat model is
\* called only when the search returned at least one result, the sources
\* list has one entry per search result (at most 5) in the same order, and
\* any thrown error yields HTTP 500.
C34_Done(r) == chat.pc = "up" /\ chat.reqs[r].pc = "done"

\* The body could not be read as a JSON value with members.
C34_Unreadable(body) == body.kind # "value"

\* The body carries a query: a string with a character that is not blank.
C34_Usable(body) ==
  /\ body.kind = "value"
  /\ body.type = "string"
  /\ \E k \in 1 .. Len(body.text) : body.text[k] # " "

C34_NoQuery(body) == ~C34_Usable(body)

C34_Count(calls, what) == Cardinality({ k \in 1 .. Len(calls) : calls[k] = what })

C34_SourcesFollowResults(h) ==
  h.response.httpStatus = 200 =>
    /\ Len(h.response.sources) = Len(h.searchResults)
    /\ Len(h.response.sources) <= TopK
    /\ \A k \in 1 .. Len(h.searchResults) :
         /\ h.response.sources[k].chunk_id = h.searchResults[k].chunk_id
         /\ h.searchResults[k] = rankedHits(MaxHits)[k]
    /\ C34_Count(h.calls, "chat") = (IF Len(h.searchResults) > 0 THEN 1 ELSE 0)

C34_ChatContract ==
  \A r \in ChatRequests :
    C34_Done(r) =>
      LET h == chat.reqs[r]
      IN  IF C34_NoQuery(h.body)
          THEN h.response.httpStatus = 400 /\ h.calls = <<>>
          ELSE /\ C34_Count(h.calls, "embedding") = 1
               /\ C34_Count(h.calls, "search") = 1
               /\ h.response.httpStatus \in {200, 500}
               /\ C34_SourcesFollowResults(h)

\* C34, as the handler goes: a body that is not JSON, or is null, makes the
\* reading of the body throw and is answered with 500 without any call; a
\* body that was read and whose query is missing, not a string or blank is
\* answered with 400 without any call; otherwise the calls made are a prefix
\* of embedding, search, chat, each made once and only after the one before
\* it succeeded, the chat model only for a non-empty result; a request
\* whose calls all succeeded is answered with 200 and one source per search
\* result, at most 5, in the order of the results; a request with a failed
\* call is answered with 500.
C34_CallsSoFar(h) ==
  /\ h.pc = "embedding" => h.calls = <<"embedding">>
  /\ h.pc = "searching" => h.calls = <<"embedding", "search">> /\ h.top = TopK
  /\ h.pc = "chatting" =>
       h.calls = <<"embedding", "search", "chat">> /\ Len(h.searchResults) > 0
  /\ h.pc \in {"embedding", "searching", "chatting"} => ~C34_NoQuery(h.body)

C34_ChatContractThrowing ==
  chat.pc = "up" =>
    \A r \in ChatRequests :
      LET h == chat.reqs[r]
      IN  /\ C34_CallsSoFar(h)
          /\ h.pc = "done" =>
               IF C34_Unreadable(h.body)
               THEN h.response = serverError /\ h.calls = <<>>
               ELSE IF ~C34_Usable(h.body)
               THEN h.response.httpStatus = 400 /\ h.calls = <<>>
               ELSE /\ h.calls \in { <<"embedding">>, <<"embedding", "search">>,
                                     <<"embedding", "search", "chat">> }
                    /\ h.response.httpStatus \in {200, 500}
                    /\ h.response.httpStatus = 200 =>
                         /\ C34_Count(h.calls, "search") = 1
                         /\ C34_SourcesFollowResults(h)

\* One request answered with five sources although the index ranked more,
\* the other answered with 500 after its embedding call failed and no
\* search was made.
C34_Witness ==
  /\ C34_Done(1) /\ C34_Done(2)
  /\ chat.reqs[1].response.httpStatus = 200
  /\ Len(chat.reqs[1].response.sources) = TopK
  /\ chat.reqs[1].calls = <<"embedding", "search", "chat">>
  /\ chat.reqs[2].response = serverError
  /\ chat.reqs[2].calls = <<"embedding">>

\* -------------------------------------------------------------------- C35
\* C35: the boundary adjustment of chunkText only ever shortens a window:
\* every window ends at most chunkSize characters behind its start, so no
\* returned chunk is longer than chunkSize, and an adjusted window ends just
\* behind a '.' or newline that lies beyond the window's half and inside the
\* window.
C35_BreakAt(w) == w.end - 1

C35_WindowsOnlyShortened ==
  chunker.pc \in {"loop", "done"} =>
    LET in == chunker.in
    IN  /\ \A k \in 1 .. Len(chunker.windows) :
             LET w == chunker.windows[k]
             IN  /\ w.end <= w.start + in.chunkSize
                 /\ w.cut =>
                      /\ C35_BreakAt(w) \in in.text.dots \cup in.text.newlines
                      /\ 2 * C35_BreakAt(w) > 2 * w.start + in.chunkSize
                      /\ C35_BreakAt(w) < w.start + in.chunkSize
        /\ \A k \in 1 .. Len(chunker.chunks) :
             chunker.chunks[k].to - chunker.chunks[k].from <= in.chunkSize

\* -------------------------------------------------------------------- C36
\* C36: at any time at most one ingestion child started through
\* POST /api/ingest is running, also when the page has given up its request
\* after 10 minutes and the user starts the ingestion again.
C36_SingleWriter ==
  ingests.pc = "up" => Cardinality(runningChildren(ingests.posts)) <= 1

\* -------------------------------------------------------------------- C37
\* C37: at every point of the per-file loop the five counters are all
\* >= 0, and when the loop has ended newCount + updatedCount + skippedCount
\* equals the number of files discovered: every file is counted in exactly
\* one of new, updated and skipped.
C37_LoopEnded ==
  /\ pc \in {"guard", "upsert", "upsert_wait", "exited"}
  /\ ~EarlyFailure
  /\ i > Len(fileCategories)

C37_CounterInvariant ==
  /\ \A c \in DOMAIN counts : counts[c] >= 0
  /\ C37_LoopEnded =>
       counts.newCount + counts.updatedCount + counts.skippedCount = Len(files)

\* -------------------------------------------------------------------- C38
\* C38: a file whose current chunks are only partly in the index (an
\* embedding call failed midway through the file, or an upsert batch failed
\* after an earlier batch with some of its chunks was written) is never
\* classified as unchanged by the next run.
C38_CurrentChunksIn(f) ==
  LET c  == remote[f].content
      ws == ChunkTable[c.name]
  IN  { j \in 0 .. Len(ws) - 1 :
          /\ <<f, j>> \in DOMAIN index
          /\ index[<<f, j>>].content = <<c.name, ws[j + 1].start, ws[j + 1].end>> }

C38_Partial(f) ==
  /\ C38_CurrentChunksIn(f) # {}
  /\ C38_CurrentChunksIn(f) # 0 .. Len(ChunkTable[remote[f].content.name]) - 1

C38_PartialNeverUnchanged ==
  Settled => \A f \in Listed : CategoryOf(f) = "unchanged" => ~C38_Partial(f)

\* -------------------------------------------------------------------- C39
\* C39: a run that produced no document and in which at least one file that
\* entered processing failed with a download, extraction or embedding error
\* exits with failure, however many other files were skipped as unchanged or
\* unsupported; a run without documents exits with success only when no
\* file failed.
C39_Failed == { f \in Listed : outcome[f] \in ErrorOutcomes }

C39_ZeroDocumentsExit ==
  (pc = "exited" /\ ~EarlyFailure /\ i > Len(fileCategories) /\ Len(allDocuments) = 0) =>
    (C39_Failed # {} => exitCode = 1)

\* -------------------------------------------------------------------- C40
\* C40: every Graph request of a run (folder listing and content download)
\* carries a token that has not expired when the request is sent, however
\* long the processing of the run's files takes.
C40_TokenNeverStale ==
  bearer.pc # "idle" =>
    \A k \in 1 .. Len(bearer.requests) :
      validityLeft(bearer.requests[k].token, bearer.requests[k].at) > 0

====
